-------------------------------- MODULE Otp --------------------------------
(***************************************************************************)
(* One-time passwords: send_otp and verify_otp of auth.py over the         *)
(* otp_codes row of one phone.  A request reads the row once; its later    *)
(* writes name only the phone, so they land on whatever the row holds.     *)
(* A code is a model value: the hash of a code is compared with another    *)
(* code's hash, and two codes never have the same.                         *)
(***************************************************************************)
EXTENDS Naturals, FiniteSets

CONSTANTS
    Codes,          \* codes generate_otp returns, each once
    Senders,        \* requests to send, each used once
    Verifiers,      \* requests to verify
    MaxAttempts,    \* otp_max_attempts
    Cooldown, Ttl,  \* otp_send_cooldown_seconds, otp_ttl_seconds, in ticks
    OtpMaxTime,     \* bound of time
    MaxTries,       \* bound of the comparisons of each code
    NoCode, WrongCode

ASSUME OtpAssumption ==
    /\ MaxAttempts \in Nat \ {0}
    /\ Cooldown \in Nat /\ Ttl \in Nat /\ OtpMaxTime \in Nat /\ MaxTries \in Nat
    /\ IsFiniteSet(Verifiers)
    /\ NoCode \notin Codes /\ WrongCode \notin Codes /\ NoCode # WrongCode

VARIABLES
    otpNow,
    otp,        \* the row: code, when it was sent, attempts; or code NoCode
    sender,     \* send_otp requests
    verifier,   \* verify_otp requests
    generated,  \* history: codes generated so far
    tries,      \* history: comparisons of a code that failed
    spent,      \* history: codes whose verification returned a token
    delivered,  \* history: the row of the last answer "OTP sent"
    doubled,    \* history: codes two verifications accepted at once
    spoiled     \* history: codes whose row a stale write has changed

otpVars == <<otpNow, otp, sender, verifier, generated, tries, spent,
             delivered, doubled, spoiled>>

Sender == [pc : {"new", "save", "sms", "delete", "done"}, code : Codes \cup {NoCode},
           at : 0..OtpMaxTime]
Verifier == [pc : {"idle", "delete", "increment", "accept"}, code : Codes \cup {NoCode}]
Nothing == [code |-> NoCode, at |-> 0]
EmptyRow == [code |-> NoCode, at |-> 0, attempts |-> 0]

OtpTypeOK ==
    /\ otpNow \in 0..OtpMaxTime
    /\ otp \in [code : Codes \cup {NoCode}, at : 0..OtpMaxTime, attempts : Nat]
    /\ sender \in [Senders -> Sender]
    /\ verifier \in [Verifiers -> Verifier]
    /\ generated \subseteq Codes /\ spent \subseteq Codes
    /\ doubled \subseteq Codes /\ spoiled \subseteq Codes
    /\ tries \in [Codes -> Nat]
    /\ delivered \in [code : Codes \cup {NoCode}, at : 0..OtpMaxTime]

OtpInit ==
    /\ otpNow = 0
    /\ otp = EmptyRow
    /\ sender = [s \in Senders |-> [pc |-> "new", code |-> NoCode, at |-> 0]]
    /\ verifier = [v \in Verifiers |-> [pc |-> "idle", code |-> NoCode]]
    /\ generated = {} /\ spent = {} /\ doubled = {} /\ spoiled = {}
    /\ tries = [c \in Codes |-> 0]
    /\ delivered = Nothing

OtpTick ==
    /\ otpNow < OtpMaxTime
    /\ otpNow' = otpNow + 1
    /\ UNCHANGED <<otp, sender, verifier, generated, tries, spent, delivered, doubled, spoiled>>

Expired(row) == otpNow > row.at + Ttl
SenderAt(s, pc, c, t) == sender' = [sender EXCEPT ![s] = [pc |-> pc, code |-> c, at |-> t]]
VerifierAt(v, pc, c) == verifier' = [verifier EXCEPT ![v] = [pc |-> pc, code |-> c]]

(* A write by a request that read another code than the row now holds:     *)
(* nothing is promised about that row's code any more.                     *)
Spoil(c) == spoiled' = IF otp.code \in {c, NoCode} THEN spoiled
                       ELSE spoiled \cup {otp.code}

-----------------------------------------------------------------------------
(* The row is read and the cooldown checked; refused requests end.         *)
SendCheck(s, c) ==
    /\ sender[s].pc = "new"
    /\ c \notin generated
    /\ otp.code # NoCode => otpNow - otp.at >= Cooldown
    /\ generated' = generated \cup {c}
    /\ SenderAt(s, "save", c, otpNow)
    /\ UNCHANGED <<otpNow, otp, verifier, tries, spent, delivered, doubled, spoiled>>

(* Mutant of SaveOtp: the attempts of the code before are kept.            *)
SaveOtp_AttemptsKept(s) ==
    /\ sender[s].pc = "save"
    /\ otp' = [code |-> sender[s].code, at |-> sender[s].at, attempts |-> otp.attempts]
    /\ SenderAt(s, "sms", sender[s].code, sender[s].at)
    /\ delivered' = Nothing
    /\ UNCHANGED <<otpNow, verifier, generated, tries, spent, doubled, spoiled>>

(* save_otp: the code, its times and the attempts are replaced together.   *)
SaveOtp(s) ==
    /\ sender[s].pc = "save"
    /\ otp' = [code |-> sender[s].code, at |-> sender[s].at, attempts |-> 0]
    /\ SenderAt(s, "sms", sender[s].code, sender[s].at)
    /\ delivered' = Nothing
    /\ UNCHANGED <<otpNow, verifier, generated, tries, spent, doubled, spoiled>>

(* The answer "OTP sent": remembered if its code is still the stored one.  *)
SmsAccepted(s) ==
    /\ sender[s].pc = "sms"
    /\ SenderAt(s, "done", NoCode, 0)
    /\ delivered' = IF otp.code = sender[s].code
                    THEN [code |-> otp.code, at |-> otp.at] ELSE delivered
    /\ UNCHANGED <<otpNow, otp, verifier, generated, tries, spent, doubled, spoiled>>

SmsFailed(s) ==
    /\ sender[s].pc = "sms"
    /\ SenderAt(s, "delete", sender[s].code, sender[s].at)
    /\ UNCHANGED <<otpNow, otp, verifier, generated, tries, spent, delivered, doubled, spoiled>>

DeleteUnsent(s) ==
    /\ sender[s].pc = "delete"
    /\ otp' = EmptyRow
    /\ Spoil(sender[s].code)
    /\ SenderAt(s, "done", NoCode, 0)
    /\ UNCHANGED <<otpNow, verifier, generated, tries, spent, delivered, doubled>>

-----------------------------------------------------------------------------
(* The row is read and judged; without a row the request ends.             *)
VerifyCheck(v, guess) ==
    /\ verifier[v].pc = "idle"
    /\ otp.code # NoCode
    /\ \/ /\ otp.attempts >= MaxAttempts \/ Expired(otp)
          /\ VerifierAt(v, "delete", otp.code)
          /\ UNCHANGED <<tries, doubled>>
       \/ /\ otp.attempts < MaxAttempts /\ ~ Expired(otp)
          /\ guess # otp.code
          /\ tries[otp.code] < MaxTries
          /\ tries' = [tries EXCEPT ![otp.code] = @ + 1]
          /\ VerifierAt(v, "increment", otp.code)
          /\ UNCHANGED doubled
       \/ /\ otp.attempts < MaxAttempts /\ ~ Expired(otp)
          /\ guess = otp.code
          /\ VerifierAt(v, "accept", otp.code)
          /\ doubled' = IF \E u \in Verifiers : verifier[u] =
                             [pc |-> "accept", code |-> otp.code]
                        THEN doubled \cup {otp.code} ELSE doubled
          /\ UNCHANGED tries
    /\ UNCHANGED <<otpNow, otp, sender, generated, spent, delivered, spoiled>>

(* Mutant of Increment: the attempts are written back from what was read.  *)
Increment_Lost(v) ==
    /\ verifier[v].pc = "increment"
    /\ VerifierAt(v, "idle", NoCode)
    /\ UNCHANGED <<otpNow, otp, sender, generated, tries, spent, delivered, doubled, spoiled>>

(* An UPDATE that adds 1: nothing happens when the row is gone.            *)
Increment(v) ==
    /\ verifier[v].pc = "increment"
    /\ otp' = IF otp.code = NoCode THEN otp ELSE [otp EXCEPT !.attempts = @ + 1]
    /\ Spoil(verifier[v].code)
    /\ VerifierAt(v, "idle", NoCode)
    /\ UNCHANGED <<otpNow, sender, generated, tries, spent, delivered, doubled>>

DeleteRefused(v) ==
    /\ verifier[v].pc = "delete"
    /\ otp' = EmptyRow
    /\ Spoil(verifier[v].code)
    /\ VerifierAt(v, "idle", NoCode)
    /\ UNCHANGED <<otpNow, sender, generated, tries, spent, delivered, doubled>>

(* Mutant of Accept: the row outlives the token.                           *)
Accept_Kept(v) ==
    /\ verifier[v].pc = "accept"
    /\ spent' = spent \cup {verifier[v].code}
    /\ doubled' = doubled
    /\ VerifierAt(v, "idle", NoCode)
    /\ UNCHANGED <<otpNow, otp, sender, generated, tries, delivered, spoiled>>

(* The row is deleted, then the token is returned.                         *)
Accept(v) ==
    /\ verifier[v].pc = "accept"
    /\ otp' = EmptyRow
    /\ Spoil(verifier[v].code)
    /\ spent' = spent \cup {verifier[v].code}
    /\ VerifierAt(v, "idle", NoCode)
    /\ UNCHANGED <<otpNow, sender, generated, tries, delivered, doubled>>

OtpNext ==
    \/ OtpTick
    \/ \E s \in Senders :
         \/ \E c \in Codes : SendCheck(s, c)
         \/ SaveOtp(s) \/ SmsAccepted(s) \/ SmsFailed(s) \/ DeleteUnsent(s)
    \/ \E v \in Verifiers :
         \/ \E g \in generated \cup {WrongCode} : VerifyCheck(v, g)
         \/ Increment(v) \/ DeleteRefused(v) \/ Accept(v)

OtpSpec == OtpInit /\ [][OtpNext]_otpVars

-----------------------------------------------------------------------------
(***************************************************************************)
(* Properties                                                              *)
(***************************************************************************)
(* However sends and verifications interleave, a stored code is compared   *)
(* with wrong guesses at most otp_max_attempts times, and once more for    *)
(* each other verification under way: the attempts are read before they    *)
(* are counted, and a resend starts a new count only with a new code.      *)
GuessesBounded == \A c \in Codes :
    tries[c] < MaxAttempts + Cardinality(Verifiers)

(* The code of the last "OTP sent" is the one stored until it is spent,    *)
(* expires or has been tried too often, unless a request that read another *)
(* row deletes it: no late increment, delete or resend of the same request *)
(* makes the worker's newest code useless.                                 *)
DeliveredIsStored ==
    delivered.code \notin {NoCode} \cup spent \cup spoiled =>
        \/ otp.code = delivered.code
        \/ Expired(delivered)
        \/ tries[delivered.code] >= MaxAttempts

(* A code opens one session, unless two verifications read it before       *)
(* either deleted it.                                                      *)
CodeSpentOnce == \A v \in Verifiers :
    verifier[v].pc = "accept" /\ verifier[v].code \in spent =>
        verifier[v].code \in doubled
=============================================================================
