-------------------------------- MODULE Binding --------------------------------
(***************************************************************************)
(* The capability binding of a session (src/src/binding.rs) and the        *)
(* relation of schemes, policies and identity modes it rests on            *)
(* (src/src/policy.rs): what an endpoint accepts of an offer, what the     *)
(* initiator verifies of the answer, and what a bound session may open.    *)
(*                                                                         *)
(* Limits keep one field of each kind: `frame` for the sizes with a        *)
(* minimum, `queued` and `reserve` for a queue and its control reserve     *)
(* (bytes and frames obey the same rules), `window` for the receive        *)
(* window.  A refusal is its error code, a string.                         *)
(***************************************************************************)
EXTENDS Integers, FiniteSets

CONSTANTS
  None,        \* an absent value
  Bindable,    \* the profiles a Bind can select
  MinFrame,    \* the least frame and control reserve that are usable
  MinReserve,
  MinRoom      \* the least of a queue left beside its control reserve

IdentityMode == {"Ambient", "ExplicitKey", "CredentialsDisabled"}

Allows(scheme, policy, identity) ==
  <<scheme, policy, identity>> \in
    {<<"Ssh", "SshAmbient", "Ambient">>,
     <<"Ssh", "SshExplicit", "ExplicitKey">>,
     <<"Https", "Anonymous", "CredentialsDisabled">>,
     <<"Https", "Gh", "Ambient">>,
     <<"Https", "WindowsConfigured", "Ambient">>,
     <<"Https", "WindowsDefault", "Ambient">>}

Native(policy) == policy \in {"WindowsConfigured", "WindowsDefault"}

Supports(scheme, policy) == \E identity \in IdentityMode : Allows(scheme, policy, identity)

\* Of two capability lists, the members that have a partner in the other.
Paired(schemes, policies) == {s \in schemes : \E p \in policies : Supports(s, p)}
Partners(schemes, policies) == {p \in policies : \E s \in schemes : Supports(s, p)}

Capabilities(schemes, policies) ==
  /\ schemes # {} /\ policies # {}
  /\ Paired(schemes, policies) = schemes
  /\ Partners(schemes, policies) = policies

-----------------------------------------------------------------------------

Usable(limits) ==
  /\ limits.frame >= MinFrame
  /\ limits.reserve >= MinReserve
  /\ limits.queued - limits.reserve >= MinRoom
  /\ limits.window <= limits.queued - limits.reserve

NoGreater(a, b) == \A f \in DOMAIN a : a[f] <= b[f]

Minimum(a, b) == [f \in DOMAIN a |-> IF a[f] <= b[f] THEN a[f] ELSE b[f]]

\* The profile, schemes and policies EndpointConfig::accept settles on.
Profile(offer) ==
  LET common == Bindable \cap offer.versions
  IN  CHOOSE v \in common : \A w \in common : v >= w

CommonPolicies(endpoint, offer) ==
  {p \in endpoint.policies \cap offer.policies : Profile(offer) = 1 => ~Native(p)}

\* The Bound of an offer that is not refused.
Accept(endpoint, offer) ==
  LET wanted == CommonPolicies(endpoint, offer)
      schemes == Paired(endpoint.schemes \cap offer.schemes, wanted)
  IN  [version |-> Profile(offer), role |-> endpoint.role, endpoint |-> endpoint.id,
       schemes |-> schemes, policies |-> Partners(schemes, wanted),
       limits |-> Minimum(offer.limits, endpoint.limits)]

\* The code accept refuses an offer with, or None.
Refusal(endpoint, offer) ==
  IF offer.role # endpoint.role THEN "UnsupportedOperation"
  ELSE IF Bindable \cap offer.versions = {} THEN "UnsupportedVersion"
  ELSE IF \/ Paired(endpoint.schemes \cap offer.schemes, CommonPolicies(endpoint, offer)) = {}
          \/ ~Usable(Minimum(offer.limits, endpoint.limits))
  THEN "UnsupportedOperation" ELSE None

\* verify: the acknowledgement asks for nothing the offer did not have.
Verify(offer, bound) ==
  /\ bound.role = offer.role
  /\ bound.version \in Bindable \cap offer.versions
  /\ bound.schemes \subseteq offer.schemes
  /\ bound.policies \subseteq offer.policies
  /\ NoGreater(bound.limits, offer.limits)
  /\ Usable(bound.limits)

\* Binding::check_open.
CheckOpen(bound, open) ==
  /\ open.endpoint = bound.endpoint
  /\ open.scheme \in bound.schemes
  /\ open.policy \in bound.policies
  /\ NoGreater(open.limits, bound.limits)
  /\ Usable(open.limits)

\* Binding::check_identity, of a well-formed check.
CheckIdentity(bound, check) ==
  /\ bound.version \in {2, 3}
  /\ check.endpoint = bound.endpoint
=============================================================================
