---------------------------- MODULE JwtValidator ----------------------------
(***************************************************************************)
(* The tokens of src/ws.rs: JwtValidator, of which the process has one, and*)
(* what it accepts.  Its secrets come from the environment when the process*)
(* starts; nothing changes them later, so that a rotation is a restart.    *)
(*                                                                         *)
(* A token is what its validation asks of it: the secret that signed it,   *)
(* and whether its claims name the issuer and a user.  That it expires, and*)
(* who revokes it, is external: nothing in the repository calls            *)
(* revoke_token, and cleanup_revoked removes nothing.                      *)
(***************************************************************************)
EXTENDS Naturals

CONSTANTS
  Secrets,       \* secrets that sign tokens
  Environments,  \* what JWT_CURRENT_SECRET and JWT_PREVIOUS_SECRETS may be
  MaxRestarts    \* bound: how often the process starts again

ASSUME EnvironmentsAssumption ==
  Environments \subseteq [current : Secrets, previous : SUBSET Secrets]
ASSUME RestartsAssumption == MaxRestarts \in Nat

Token == [secret : Secrets, claims : BOOLEAN]

VARIABLES
  secrets,          \* current_secret, and the set of previous_secrets
  revoked_tokens,   \* JwtValidator.revoked_tokens
  restarts          \* what MaxRestarts counts

validator == <<secrets, revoked_tokens, restarts>>

ValidatorInit ==
  /\ secrets \in Environments
  /\ revoked_tokens = {}
  /\ restarts = 0

\* decode, and the checks of issuer and user
TryValidate(token, secret) == token.secret = secret /\ token.claims

\* Mutant: the current secret is enough.
ValidateTokenFirst(token) ==
  \/ TryValidate(token, secrets.current)
  \/ /\ token \notin revoked_tokens
     /\ \E secret \in secrets.previous : TryValidate(token, secret)

\* A token that was not revoked and that one of the secrets has signed.
ValidateToken(token) ==
  /\ token \notin revoked_tokens
  /\ \/ TryValidate(token, secrets.current)
     \/ \E secret \in secrets.previous : TryValidate(token, secret)

\* insert, which changes nothing for a token that is in the set already.
RevokeToken(token) ==
  /\ revoked_tokens' = revoked_tokens \union {token}
  /\ UNCHANGED <<secrets, restarts>>

\* A new process: nothing of the set is kept.
NewValidator ==
  /\ restarts < MaxRestarts
  /\ restarts' = restarts + 1
  /\ secrets' \in Environments
  /\ revoked_tokens' = {}

ValidatorTypeOK ==
  /\ secrets \in Environments
  /\ revoked_tokens \subseteq Token
  /\ restarts \in 0..MaxRestarts

=============================================================================
