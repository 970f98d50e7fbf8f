----------------------------- MODULE Authenticator -----------------------------
(***************************************************************************)
(* The second factor of one user: enrolment, codes, recovery codes, and    *)
(* the approval of sign-in sessions (src/auth/services/                    *)
(* authenticator.service.ts, with login, completeTwoFactorLogin, logout    *)
(* and the changes of password of src/auth/auth.service.ts).               *)
(*                                                                         *)
(* A code of the app is named by its time step, and is good for the step   *)
(* before and the one after; wrong codes, the limits on attempts and the   *)
(* migration of older second factors are left out.                         *)
(***************************************************************************)
EXTENDS Integers, FiniteSets, Requests

CONSTANTS
    Sessions,    \* sign-ins with the right password
    Recovery,    \* recovery codes in a set
    MaxRevision, \* bound on the enrolments
    MaxSet,      \* bound on the sets of recovery codes
    LastStep     \* bound on the time steps that pass

ASSUME AuthenticatorAssumption ==
    /\ MaxRevision \in Nat /\ MaxSet \in Nat \ {0} /\ LastStep \in Nat \ {0}

VARIABLES
    factor,    \* profile_authenticators, and two_factor_enabled, written with it
    revisions, \* enrolments so far
    approved,  \* verified_mfa_sessions: the revision, Password, or Nobody
    challenge, \* mfa:login:*, by session: the revision, or Nobody
    now,
    proven,    \* history: sessions that answered with a code, and of what enrolment
    spent,     \* history: codes of the enrolment that were accepted
    reused     \* history: codes that were accepted a second time

authVars == <<factor, revisions, approved, challenge, now, proven, spent, reused, req>>

Password == 0
Nobody == -1

NoFactor == [revision |-> Password, used |-> -1, set |-> 0, unused |-> {}]

AuthInit ==
    /\ factor = NoFactor
    /\ revisions = 0
    /\ approved = [s \in Sessions |-> Nobody]
    /\ challenge = [s \in Sessions |-> Nobody]
    /\ now = 1
    /\ proven = {}
    /\ spent = {}
    /\ reused = {}
    /\ ReqInit

Enrolled == factor.revision # Password

(* What a request carries: why it was made, what it will still compare of  *)
(* the factor it has read, and the code it was given.                      *)
Carry(why, f, code) == [why |-> why, factor |-> f, code |-> code]
OfRevision(f) == [NoFactor EXCEPT !.revision = f.revision]
Compared(f, code) ==
    IF code[1] = "app" THEN OfRevision(f) ELSE [f EXCEPT !.used = -1]
Answered(p, at) ==
    req' = [req EXCEPT ![p] = [at |-> at, row |-> req[p].row,
                               seen |-> Carry("answered", OfRevision(req[p].seen.factor), None)]]

-----------------------------------------------------------------------------
(* Signing in *)

(* The identity provider has accepted the password. *)
Login(p, s) ==
    /\ Idle(p)
    /\ IF Enrolled
         THEN challenge' = [challenge EXCEPT ![s] = factor.revision] /\ UNCHANGED req
         ELSE /\ Begins(p, "approve", s, Carry("answered", NoFactor, None))
              /\ UNCHANGED challenge
    /\ UNCHANGED <<factor, revisions, approved, now, proven, spent, reused>>

(* approve: what was shown is compared with the enrolment there is now. *)
Approve(p) ==
    /\ At(p, "approve")
    /\ IF req[p].seen.factor.revision = factor.revision THEN GoesTo(p, "upsert") ELSE Ends(p)
    /\ UNCHANGED <<factor, revisions, approved, challenge, now, proven, spent, reused>>

Upsert(p) ==
    /\ At(p, "upsert")
    /\ approved' = [approved EXCEPT ![req[p].row] = req[p].seen.factor.revision]
    /\ challenge' = [challenge EXCEPT ![req[p].row] = Nobody]
    /\ Ends(p)
    /\ UNCHANGED <<factor, revisions, now, proven, spent, reused>>

(* Twelve hours; or logout, a new password, a deactivated profile. *)
ExpireApproval(s) ==
    /\ approved' = [approved EXCEPT ![s] = Nobody]
    /\ UNCHANGED <<factor, revisions, challenge, now, proven, spent, reused, req>>

Revoke ==
    /\ approved' = [s \in Sessions |-> Nobody]
    /\ UNCHANGED <<factor, revisions, challenge, now, proven, spent, reused, req>>

-----------------------------------------------------------------------------
(* Codes *)

AppCodes == {<<"app", n>> : n \in {now - 1, now, now + 1}}
RecoveryCodes == {<<"recovery", r>> : r \in Recovery}

(* What the row that was read accepts. *)
Matches(code) ==
    IF code[1] = "app" THEN code \in AppCodes ELSE code[2] \in factor.unused

Verify(p, s, why, code) ==
    /\ Enrolled
    /\ IF why = "login" THEN challenge[s] # Nobody ELSE approved[s] = factor.revision
    /\ Matches(code)
    /\ Begins(p, "spend", s, Carry(why, Compared(factor, code), code))
    /\ UNCHANGED <<factor, revisions, approved, challenge, now, proven, spent, reused>>

(* Slip: the codes are not compared with those that were read. *)
SlipStillGood(seen, code) ==
    /\ factor.revision = seen.revision
    /\ code[1] = "app" => factor.used < code[2]

(* updateMany, with what was read in its condition. *)
StillGood(seen, code) ==
    /\ factor.revision = seen.revision
    /\ IF code[1] = "app" THEN factor.used < code[2]
                          ELSE factor.set = seen.set /\ factor.unused = seen.unused

Spend(seen, code) ==
    IF code[1] = "app"
    THEN [factor EXCEPT !.used = code[2]]
    ELSE [factor EXCEPT !.unused = seen.unused \ {code[2]}]

(* The name of a code for all time. *)
Token(seen, code) == <<seen.revision, IF code[1] = "app" THEN 0 ELSE seen.set, code>>

SpendCode(p) ==
    LET seen == req[p].seen.factor
        code == req[p].seen.code
        s == req[p].row IN
    /\ At(p, "spend")
    /\ IF StillGood(seen, code)
         THEN /\ factor' = Spend(seen, code)
              /\ spent' = spent \cup {Token(seen, code)}
              /\ reused' = reused \cup ({Token(seen, code)} \cap spent)
              /\ IF req[p].seen.why # "login"
                   THEN Answered(p, req[p].seen.why) /\ UNCHANGED proven
                   ELSE /\ proven' = proven \cup {<<s, seen.revision>>}
                        /\ IF challenge[s] = seen.revision
                             THEN Answered(p, "approve") ELSE Ends(p)
         ELSE Ends(p) /\ UNCHANGED <<factor, spent, reused, proven>>
    /\ UNCHANGED <<revisions, approved, challenge, now>>

Disable(p) ==
    /\ At(p, "disable")
    /\ IF factor.revision = req[p].seen.factor.revision
         THEN /\ factor' = NoFactor
              /\ approved' = [s \in Sessions |-> Nobody]
              /\ proven' = {}
              /\ spent' = {}
         ELSE UNCHANGED <<factor, approved, proven, spent>>
    /\ Ends(p)
    /\ UNCHANGED <<revisions, challenge, now, reused>>

(* The row is read again, and its codes are compared when they are written *)
RegenerateRecoveryCodes(p) ==
    /\ At(p, "regenerate")
    /\ IF factor.revision = req[p].seen.factor.revision
         THEN req' = [req EXCEPT ![p] =
                        [at |-> "replace", row |-> req[p].row,
                         seen |-> Carry("answered", [factor EXCEPT !.used = -1], None)]]
         ELSE Ends(p)
    /\ UNCHANGED <<factor, revisions, approved, challenge, now, proven, spent, reused>>

ReplaceRecoveryCodes(p) ==
    LET seen == req[p].seen.factor IN
    /\ At(p, "replace")
    /\ seen.set < MaxSet
    /\ factor' = IF factor.revision = seen.revision /\ factor.set = seen.set
                       /\ factor.unused = seen.unused
                 THEN [revision |-> factor.revision, used |-> factor.used,
                       set |-> factor.set + 1, unused |-> Recovery]
                 ELSE factor
    /\ Ends(p)
    /\ UNCHANGED <<revisions, approved, challenge, now, proven, spent, reused>>

-----------------------------------------------------------------------------
(* Enrolment *)

(* setup and activate up to its transaction: the app has shown a code of   *)
(* the new secret, and the setup is consumed.                              *)
Setup(p, s) ==
    /\ ~Enrolled
    /\ approved[s] = Password
    /\ revisions < MaxRevision
    /\ revisions' = revisions + 1
    /\ Begins(p, "activate", s, Carry("activate",
          [revision |-> revisions', used |-> now, set |-> 1, unused |-> Recovery], None))
    /\ UNCHANGED <<factor, approved, challenge, now, proven, spent, reused>>

(* The user's row is unique: a second enrolment fails. *)
Activate(p) ==
    LET new == req[p].seen.factor IN
    /\ At(p, "activate")
    /\ IF Enrolled
         THEN UNCHANGED <<factor, approved, proven>>
         ELSE /\ factor' = new
              /\ approved' = [s \in Sessions |->
                                IF s = req[p].row THEN new.revision ELSE Nobody]
              /\ proven' = proven \cup {<<req[p].row, new.revision>>}
    /\ Ends(p)
    /\ UNCHANGED <<revisions, challenge, now, spent, reused>>

(* Half a minute passes. *)
NextStep ==
    /\ now < LastStep
    /\ now' = now + 1
    /\ UNCHANGED <<factor, revisions, approved, challenge, proven, spent, reused, req>>

AuthDies(p) ==
    Dies(p) /\ UNCHANGED <<factor, revisions, approved, challenge, now, proven, spent, reused>>

AuthNext ==
    \/ Revoke \/ NextStep
    \/ \E s \in Sessions : ExpireApproval(s)
    \/ \E p \in Procs :
          \/ Approve(p) \/ Upsert(p) \/ SpendCode(p) \/ Disable(p)
          \/ RegenerateRecoveryCodes(p) \/ ReplaceRecoveryCodes(p) \/ Activate(p) \/ AuthDies(p)
          \/ \E s \in Sessions :
                \/ Login(p, s) \/ Setup(p, s)
                \/ \E why \in {"login", "disable", "regenerate"},
                      code \in AppCodes \cup RecoveryCodes : Verify(p, s, why, code)

AuthSpec == AuthInit /\ [][AuthNext]_authVars

-----------------------------------------------------------------------------
(* Slip: any approval will do, whatever it was given for. *)
SlipAccepted(s) == approved[s] # Nobody

(* assertSession *)
Accepted(s) == approved[s] = factor.revision

AuthTypeOK ==
    /\ factor.revision \in 0..revisions
    /\ factor.used \in -1..(LastStep + 1)
    /\ factor.set \in 0..MaxSet /\ factor.unused \subseteq Recovery
    /\ Enrolled <=> factor.set > 0
    /\ revisions \in 0..MaxRevision
    /\ approved \in [Sessions -> Nobody..MaxRevision]
    /\ challenge \in [Sessions -> Nobody..MaxRevision]
    /\ now \in 1..LastStep

(* However requests overlap - the same code sent twice at once, a recovery *)
(* code used while the set is replaced, a code that comes back after an    *)
(* older one - no code is accepted a second time (verify).                 *)
CodesAreSpentOnce == reused = {}

(* While a second factor is enrolled, a session that is let in has         *)
(* answered with a code of just this enrolment: an approval that was on    *)
(* its way when the enrolment was made, removed or replaced, and is        *)
(* written late, opens nothing (approve, assertSession).                   *)
AcceptedHaveAnswered ==
    Enrolled => \A s \in Sessions : Accepted(s) => <<s, factor.revision>> \in proven

(* The second factor is asked for, and each of its codes opens once        *)
(* (verify, approve, assertSession).                                       *)
FactorHolds == CodesAreSpentOnce /\ AcceptedHaveAnswered
=============================================================================
