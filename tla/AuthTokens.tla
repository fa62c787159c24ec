------------------------------- MODULE AuthTokens -------------------------------
(***************************************************************************)
(* The authentication section of the integrations page (AuthSection):      *)
(* generating, rotating and revoking the API token, which is shown once,   *)
(* when it is made; setting the password, which ends every session and     *)
(* signs in again; switching sign-in off.  No button is disabled while a   *)
(* call is under way, so calls may overlap.                                *)
(***************************************************************************)
EXTENDS Naturals

CONSTANTS
  MaxTokens,  \* bound: tokens made
  AuthCalls,  \* calls under way
  NoCall      \* a call that is not used

TokenOps == {"rotate", "revoke"}
Ops == TokenOps \cup {"password", "disable"}
CallSteps == {"sent", "stored", "login", "status"}
Call == [op : Ops, at : CallSteps, got : 0 .. MaxTokens]

ASSUME AuthAssumption == MaxTokens \in Nat /\ NoCall \notin Call

VARIABLES
  token,      \* the server's API token: the number of its making, 0 none
  made,       \* tokens made so far
  guarded,    \* sign-in is required
  signedIn,   \* the session cookie is of this session epoch
  password,   \* the two password fields
  calls,      \* calls under way, with the next step and the token answered
  issued,     \* issuedApiToken, 0 for ""
  status,     \* the query's enabled and api_token_set
  spoiled     \* history: token calls overlapped, or a call failed that was stored

authVars == <<token, made, guarded, signedIn, password, calls, issued, status, spoiled>>

Status == [guarded : BOOLEAN, token : BOOLEAN]

\* What the code checks before it sends a password: length, and that both are equal.
PasswordFields == {"empty", "short", "different", "good"}

AuthTypeOK ==
  /\ token \in 0 .. MaxTokens /\ made \in 0 .. MaxTokens /\ issued \in 0 .. MaxTokens
  /\ guarded \in BOOLEAN /\ signedIn \in BOOLEAN /\ spoiled \in BOOLEAN
  /\ password \in PasswordFields /\ status \in Status
  /\ calls \in [AuthCalls -> Call \cup {NoCall}]

AuthInit ==
  /\ guarded \in BOOLEAN /\ signedIn = guarded
  /\ token = 0 /\ made = 0 /\ issued = 0
  /\ password = "empty" /\ spoiled = FALSE
  /\ calls = [c \in AuthCalls |-> NoCall]
  /\ status = [guarded |-> FALSE, token |-> FALSE]

-----------------------------------------------------------------------------
(* The buttons.                                                            *)

\* Any other token call is under way.
TokenCallBeside(c) ==
  \E d \in AuthCalls \ {c} : calls[d] # NoCall /\ calls[d].op \in TokenOps

Press(c, op) ==
  /\ calls[c] = NoCall
  /\ calls' = [calls EXCEPT ![c] = [op |-> op, at |-> "sent", got |-> 0]]
  /\ spoiled' = (spoiled \/ (op \in TokenOps /\ TokenCallBeside(c)))
  /\ UNCHANGED <<token, made, guarded, signedIn, password, issued, status>>

TypePassword(f) ==
  /\ password' = f
  /\ UNCHANGED <<token, made, guarded, signedIn, calls, issued, status, spoiled>>

SavePassword(c) == password = "good" /\ Press(c, "password")
RotateToken(c) == Press(c, "rotate")
RevokeToken(c) == status.token /\ Press(c, "revoke")
DisableAuth(c) == status.guarded /\ Press(c, "disable")

-----------------------------------------------------------------------------
(* Their calls.                                                            *)

To(c, step, got) == calls' = [calls EXCEPT ![c].at = step, ![c].got = got]
Over(c) == calls' = [calls EXCEPT ![c] = NoCall]

At(c, step) == calls[c] # NoCall /\ calls[c].at = step

\* auth_update_config, behind enforce_auth.
StoreAuth(c) ==
  /\ At(c, "sent") /\ (guarded => signedIn)
  /\ CASE calls[c].op = "rotate" ->
            /\ made < MaxTokens /\ made' = made + 1 /\ token' = made + 1
            /\ To(c, "stored", made + 1)
            /\ UNCHANGED <<guarded, signedIn>>
       [] calls[c].op = "revoke" ->
            /\ token' = 0 /\ To(c, "stored", 0)
            /\ UNCHANGED <<made, guarded, signedIn>>
       [] calls[c].op = "password" ->
            /\ guarded' = TRUE /\ signedIn' = FALSE
            /\ To(c, "stored", 0)
            /\ UNCHANGED <<token, made>>
       [] OTHER ->
            /\ guarded' = FALSE /\ To(c, "stored", 0)
            /\ UNCHANGED <<token, made, signedIn>>
  /\ UNCHANGED <<password, issued, status, spoiled>>

IssuedKeeping(call) == IF call.op = "rotate" THEN call.got ELSE issued
\* What the answer makes of issuedApiToken.
Issued(call) ==
  CASE call.op = "rotate" -> call.got [] call.op = "revoke" -> 0 [] OTHER -> issued

\* The answer: the token is shown or taken away; after a password, authLogin.
AnswerAuth(c) ==
  /\ At(c, "stored")
  /\ issued' = Issued(calls[c])
  /\ To(c, IF calls[c].op = "password" THEN "login" ELSE "status", 0)
  /\ UNCHANGED <<token, made, guarded, signedIn, password, status, spoiled>>

LogInAgain(c) ==
  /\ At(c, "login")
  /\ signedIn' = TRUE /\ password' = "empty"
  /\ To(c, "status", 0)
  /\ UNCHANGED <<token, made, guarded, issued, status, spoiled>>

\* auth_status answers; it is invalidated by each call, and read on focus.
ReadStatus ==
  /\ status' = [guarded |-> guarded, token |-> token # 0]
  /\ \/ UNCHANGED calls
     \/ \E c \in AuthCalls : At(c, "status") /\ Over(c)
  /\ UNCHANGED <<token, made, guarded, signedIn, password, issued, spoiled>>

\* runAction's catch: refused or lost on the way there, or the answer is lost.
AuthFails(c) ==
  /\ calls[c] # NoCall /\ calls[c].at # "status"
  /\ Over(c)
  /\ spoiled' = (spoiled \/ (calls[c].at # "sent" /\ calls[c].op # "disable"))
  /\ UNCHANGED <<token, made, guarded, signedIn, password, issued, status>>

AuthNext ==
  \/ \E f \in PasswordFields : TypePassword(f)
  \/ \E c \in AuthCalls :
        \/ SavePassword(c) \/ RotateToken(c) \/ RevokeToken(c) \/ DisableAuth(c)
        \/ StoreAuth(c) \/ AnswerAuth(c) \/ LogInAgain(c) \/ AuthFails(c)
  \/ ReadStatus

AuthSpec == AuthInit /\ [][AuthNext]_authVars

-----------------------------------------------------------------------------
(* Properties.                                                             *)

\* When the section's calls are over, and none overlapped a token call or failed
\* after it was stored, the token it says to copy is the server's, and the tab is
\* signed in when it has to be ("Sign in with the new password so the session
\* cookie exists before the next request").
CallsOver == \A c \in AuthCalls : calls[c] = NoCall \/ calls[c].at = "status"
SectionLeavesAccess ==
  ~spoiled /\ CallsOver => issued \in {0, token} /\ (guarded => signedIn)
=============================================================================
