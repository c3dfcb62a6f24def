------------------------------- MODULE AuthOtp -------------------------------
(***************************************************************************)
(* Sign-up and six-digit codes (modules/auth/service.ts): issueOtp,        *)
(* consumeOtp and what a consumed code is followed by.  Every statement    *)
(* names one user, so the module is about one address and its account.     *)
(* A code is its place in `codes'; a guess is such a place, or 0 for six   *)
(* digits that match none.                                                 *)
(***************************************************************************)
EXTENDS Naturals, Sequences, FiniteSets

CONSTANTS
  Callers,      \* requests in flight
  MaxCodes,     \* a bound: codes issued
  MaxResets     \* a bound: passwords set by a reset

ASSUME OtpAssumption == MaxCodes \in Nat \ {0} /\ MaxResets \in Nat

VARIABLES
  codes,      \* auth_tokens of the account, oldest first
  account,    \* its users row: is it there, email_verified, resets of its password
  caller,     \* the request each caller carries
  spent       \* how often each code was accepted

otpVars == <<codes, account, caller, spent>>

Purposes == {"verify_email", "reset_password"}
Waits    == [at |-> "idle", purpose |-> "verify_email"]

OtpInit ==
  /\ codes = <<>> /\ account = [there |-> FALSE, verified |-> FALSE, resets |-> 0]
  /\ caller = [c \in Callers |-> Waits] /\ spent = [i \in 1..MaxCodes |-> 0]

Goes(c, at, p) == caller' = [caller EXCEPT ![c] = [at |-> at, purpose |-> p]]

\* issueOtp: what is outstanding for the purpose is superseded by a new code.
Issued(p) ==
  /\ Len(codes) < MaxCodes
  /\ codes' = Append([i \in DOMAIN codes |->
                        IF codes[i].purpose = p THEN [codes[i] EXCEPT !.used = TRUE] ELSE codes[i]],
                     [purpose |-> p, used |-> FALSE, over |-> FALSE])

\* signup: the address is free; the password is hashed.
SignupLook(c) ==
  /\ caller[c] = Waits /\ ~account.there /\ Goes(c, "signup", "verify_email")
  /\ UNCHANGED <<codes, account, spent>>

\* The transaction: user, firm and code; users.email_norm is unique, so of two
\* only one commits.  The session follows in a transaction of its own.
SignupWrite(c) ==
  /\ caller[c].at = "signup" /\ Goes(c, "idle", "verify_email")
  /\ \/ account.there /\ UNCHANGED <<codes, account>>
     \/ ~account.there /\ Issued("verify_email") /\ account' = [account EXCEPT !.there = TRUE]
  /\ UNCHANGED spent

\* resendVerification and forgotPassword: read the user, then issue a code.
ResendLook(c, p) ==
  /\ caller[c] = Waits /\ account.there /\ (p = "verify_email" => ~account.verified)
  /\ Goes(c, "issue", p) /\ UNCHANGED <<codes, account, spent>>

ResendIssue(c) ==
  /\ caller[c].at = "issue" /\ Issued(caller[c].purpose) /\ Goes(c, "idle", "verify_email")
  /\ UNCHANGED <<account, spent>>

\* consumeOtp's row: the newest that is unused.
Unused(p)  == {i \in DOMAIN codes : codes[i].purpose = p /\ ~codes[i].used}
Current(p) == {i \in Unused(p) : \A j \in Unused(p) : j <= i}

\* Mutant: an accepted code is not burnt.
ConsumeOtp_Keeps(c, p, guess) ==
  /\ caller[c] = Waits /\ account.there
  /\ guess \in Current(p) /\ ~codes[guess].over
  /\ spent' = [spent EXCEPT ![guess] = @ + 1]
  /\ Goes(c, "accepted", p) /\ UNCHANGED <<codes, account>>

\* consumeOtp, one transaction.  Every failure throws inside it, so it also takes
\* back the attempt it counted, or the mark it put on an expired code.
ConsumeOtp(c, p, guess) ==
  /\ caller[c] = Waits /\ account.there
  /\ guess \in Current(p) /\ ~codes[guess].over
  /\ codes' = [codes EXCEPT ![guess].used = TRUE]
  /\ spent' = [spent EXCEPT ![guess] = @ + 1]
  /\ Goes(c, "accepted", p) /\ UNCHANGED account

\* verifyEmail and resetPassword act on the accepted code in a later statement.
VerifyEmail(c) ==
  /\ caller[c] = [at |-> "accepted", purpose |-> "verify_email"]
  /\ account' = [account EXCEPT !.verified = TRUE]
  /\ Goes(c, "idle", "verify_email") /\ UNCHANGED <<codes, spent>>

ResetPassword(c) ==
  /\ caller[c] = [at |-> "accepted", purpose |-> "reset_password"]
  /\ account.resets < MaxResets /\ account' = [account EXCEPT !.resets = @ + 1]
  /\ Goes(c, "idle", "verify_email") /\ UNCHANGED <<codes, spent>>

\* OTP_TTL_SECONDS have passed for a code.
CodeExpires(i) ==
  /\ ~codes[i].over /\ codes' = [codes EXCEPT ![i].over = TRUE]
  /\ UNCHANGED <<account, caller, spent>>

\* The process ends: requests in flight are lost, an accepted code with them.
OtpCrash ==
  /\ caller' = [c \in Callers |-> Waits] /\ UNCHANGED <<codes, account, spent>>

OtpNext ==
  \/ \E c \in Callers : SignupLook(c) \/ SignupWrite(c) \/ ResendIssue(c) \/ VerifyEmail(c) \/ ResetPassword(c)
  \/ \E c \in Callers, p \in Purposes : ResendLook(c, p)
  \/ \E c \in Callers, p \in Purposes, guess \in 0..MaxCodes : ConsumeOtp(c, p, guess)
  \/ \E i \in DOMAIN codes : CodeExpires(i)
  \/ OtpCrash

OtpSpec == OtpInit /\ [][OtpNext]_otpVars

-----------------------------------------------------------------------------
(* Properties.                                                             *)

OtpTypeOK ==
  /\ codes \in Seq([purpose : Purposes, used : BOOLEAN, over : BOOLEAN]) /\ Len(codes) <= MaxCodes
  /\ account \in [there : BOOLEAN, verified : BOOLEAN, resets : 0..MaxResets]

\* A code opens the account once, and a new one closes the way for those before
\* it, although sign-up, resends and confirmations overlap: no code is accepted
\* twice, none is accepted after a later one was issued, and each reset, and the
\* verification, was paid for with a code of its purpose.
CodeSpentOnce ==
  /\ \A i \in 1..MaxCodes : spent[i] <= 1
  /\ \A i \in DOMAIN codes : ~codes[i].used =>
       spent[i] = 0 /\ \A j \in DOMAIN codes : j > i => codes[j].purpose # codes[i].purpose
  /\ account.resets <= Cardinality({i \in DOMAIN codes : codes[i].purpose = "reset_password" /\ spent[i] = 1})
  /\ account.verified => \E i \in DOMAIN codes : codes[i].purpose = "verify_email" /\ spent[i] = 1
=============================================================================
