---------------------------- MODULE AuthManager ----------------------------
(***************************************************************************)
(* The token validation of pkg/auth/auth.go.  With OIDC the provider's     *)
(* keys are cached by key id; a token with a key that is not in the cache  *)
(* has the whole cache fetched again, outside the mutex, and is looked up  *)
(* once more.  The client, the control-plane manager and its loop validate *)
(* tokens at the same time, and the provider rotates its keys.  With JWT   *)
(* there are one or two secrets and nothing to fetch.                      *)
(*                                                                         *)
(* A token is the key it is signed with and whose claims it makes; expiry  *)
(* and signature are checked by the JWT library.                           *)
(*                                                                         *)
(* A definition named Faulty... is the one after it with a plausible bug;  *)
(* no action uses it, and each breaks one property below.                  *)
(***************************************************************************)
CONSTANTS
  Validators,            \* goroutines
  Keys, NoKey,           \* signing keys, and none
  UsableKeys             \* those with an id, of RSA

ASSUME AuthAssumption == Keys # {} /\ NoKey \notin Keys /\ UsableKeys \subseteq Keys

VARIABLES
  authConfig,            \* AuthManager.config: how tokens are validated
  published,             \* what the provider's JWKS holds
  jwksCache,             \* AuthManager.jwksCache
  validatorAt, token,    \* where each validation is, and its token
  fetched,               \* the key set it has read and not yet stored
  excused                \* history: its key was not published all the time, another's
                         \* key set replaced the one it had stored, or it was not
                         \* signed with the secret that its header asks for

authCalls == <<validatorAt, token, fetched>>
authVars == <<authConfig, published, jwksCache, authCalls, excused>>

\* Issuer and audience: both ours, one missing, or one of somebody else.
NoToken == [key |-> NoKey, claims |-> "missing"]
Tokens == [key : Keys, claims : {"ours", "missing", "foreign"}]

JwtTokens == [fallbackKid : BOOLEAN, secret : {"primary", "fallback", "foreign"}]

AuthConfigs == [type : {"oidc"}, fallback : {FALSE}, skip : {FALSE}]
                 \cup [type : {"jwt"}, fallback : BOOLEAN, skip : BOOLEAN]

\* jwkToPublicKey converts RSA keys; the others, and those without an id, are passed over.
Convertible(keys) == keys \cap UsableKeys

\* setupOIDC fetches the keys before there is a manager.
AuthInit ==
  /\ authConfig \in AuthConfigs
  /\ published \in SUBSET Keys \ {{}}
  /\ jwksCache = IF authConfig.type = "oidc" THEN Convertible(published) ELSE {}
  /\ validatorAt = [v \in Validators |-> "idle"] /\ token = [v \in Validators |-> NoToken]
  /\ fetched = [v \in Validators |-> {}]
  /\ excused = [v \in Validators |-> FALSE]

ValidatorGoes(v, stage) == validatorAt' = [validatorAt EXCEPT ![v] = stage]

-----------------------------------------------------------------------------
Free(v) == validatorAt[v] \in {"idle", "accepted", "rejected"}

\* The fallback secret is the only one tried when there is one and the header asks for it.
Candidate(t) == IF t.fallbackKid /\ authConfig.fallback THEN "fallback" ELSE "primary"

ValidateJWTToken(v, t) ==
  /\ authConfig.type = "jwt" /\ Free(v)
  /\ ValidatorGoes(v, IF authConfig.skip \/ t.secret = Candidate(t)
                      THEN "accepted" ELSE "rejected")
  /\ excused' = [excused EXCEPT ![v] = t.secret # Candidate(t)]
  /\ UNCHANGED <<authConfig, published, jwksCache, token, fetched>>

ValidateToken(v, t) ==
  /\ authConfig.type = "oidc" /\ Free(v)
  /\ token' = [token EXCEPT ![v] = t]
  /\ ValidatorGoes(v, "lookup")
  /\ excused' = [excused EXCEPT ![v] = t.key \notin Convertible(published)]
  /\ UNCHANGED <<authConfig, published, jwksCache, fetched>>

\* validateOIDCClaims: a claim that is missing passes.
ClaimsPass(t) == t.claims # "foreign"

Verdict(t) == IF ClaimsPass(t) THEN "accepted" ELSE "rejected"

\* An unknown key is final when there is a cache at all.
FaultyLookUp(v) ==
  /\ validatorAt[v] = "lookup"
  /\ ValidatorGoes(v, IF token[v].key \in jwksCache THEN Verdict(token[v])
                      ELSE IF jwksCache = {} THEN "fetch" ELSE "rejected")
  /\ UNCHANGED <<authConfig, published, jwksCache, token, fetched, excused>>

LookUp(v) ==
  /\ validatorAt[v] = "lookup"
  /\ ValidatorGoes(v, IF token[v].key \in jwksCache THEN Verdict(token[v]) ELSE "fetch")
  /\ UNCHANGED <<authConfig, published, jwksCache, token, fetched, excused>>

FetchJWKS(v) ==
  /\ validatorAt[v] = "fetch"
  /\ fetched' = [fetched EXCEPT ![v] = published]
  /\ ValidatorGoes(v, "store")
  /\ UNCHANGED <<authConfig, published, jwksCache, token, excused>>

\* The provider does not answer: the token is rejected, for want of a key.
FetchFails(v) ==
  /\ validatorAt[v] = "fetch"
  /\ ValidatorGoes(v, "rejected")
  /\ excused' = [excused EXCEPT ![v] = TRUE]
  /\ UNCHANGED <<authConfig, published, jwksCache, token, fetched>>

\* refreshJWKS replaces the cache by what this goroutine has read.
RefreshJWKS(v) ==
  /\ validatorAt[v] = "store"
  /\ jwksCache' = Convertible(fetched[v])
  /\ fetched' = [fetched EXCEPT ![v] = {}]
  /\ ValidatorGoes(v, "again")
  /\ excused' = [u \in Validators |-> excused[u] \/ (u # v /\ validatorAt[u] = "again")]
  /\ UNCHANGED <<authConfig, published, token>>

LookUpAgain(v) ==
  /\ validatorAt[v] = "again"
  /\ ValidatorGoes(v, IF token[v].key \in jwksCache THEN Verdict(token[v]) ELSE "rejected")
  /\ UNCHANGED <<authConfig, published, jwksCache, token, fetched, excused>>

-----------------------------------------------------------------------------
\* The provider publishes another set of keys.
Rotate(keys) ==
  /\ authConfig.type = "oidc"
  /\ keys # published /\ keys # {}
  /\ published' = keys
  /\ excused' = [v \in Validators |-> excused[v] \/ token[v].key \notin Convertible(keys)]
  /\ UNCHANGED <<authConfig, jwksCache, authCalls>>

AuthNext ==
  \/ \E v \in Validators :
       \/ \E t \in JwtTokens : ValidateJWTToken(v, t)
       \/ \E t \in Tokens : ValidateToken(v, t)
       \/ LookUp(v) \/ FetchJWKS(v) \/ FetchFails(v) \/ RefreshJWKS(v) \/ LookUpAgain(v)
  \/ \E keys \in SUBSET Keys : Rotate(keys)

AuthSpec == AuthInit /\ [][AuthNext]_authVars

-----------------------------------------------------------------------------
(* Properties. *)

\* What the provider, the cache and the validations may hold.
AuthTypeOK ==
  /\ authConfig \in AuthConfigs
  /\ published \in SUBSET Keys /\ jwksCache \in SUBSET Keys
  /\ validatorAt \in [Validators -> {"idle", "lookup", "fetch", "store", "again",
                                     "accepted", "rejected"}]
  /\ token \in [Validators -> Tokens \cup {NoToken}]
  /\ fetched \in [Validators -> SUBSET Keys]
  /\ excused \in [Validators -> BOOLEAN]

\* A token whose claims are ours and whose usable key the provider published all the
\* while is accepted, rotations of other keys or not: it is turned away only when
\* the provider did not answer, or when another validation put an older key set
\* over the one that this validation had just fetched.
RejectionsAreExcused ==
  \A v \in Validators : validatorAt[v] = "rejected" => excused[v] \/ ~ClaimsPass(token[v])

=============================================================================
