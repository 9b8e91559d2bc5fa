------------------------- MODULE CertmanCommandProofs -------------------------
(***************************************************************************)
(* Proofs of the action properties the lifecycle and check_policy runs    *)
(* check on small configurations: what check exits with, what check --fix *)
(* leaves behind, and what a new or renew that exported leaves in output/. *)
(***************************************************************************)
EXTENDS CertmanProofs

-----------------------------------------------------------------------------
(* The exit code of check                                                  *)

\* the statuses check computes for the targets T
CheckStatus(T) == [i \in EIdx |-> IF i \in T THEN Status(i) ELSE "skip"]

\* The days left of every certificate are an integer.
LEMMA DaysLeftInt ==
    ASSUME TypeOK, NEW d \in Domains
    PROVE  DaysLeft(d) \in Int
BY DEF TypeOK, DaysLeft, Cert

\* The weight of a target's status never exceeds the spec's code, and
\* the weight of a non-target is 0.
LEMMA WeightBelowSpecCode ==
    ASSUME TypeOK, NEW T \in SUBSET EIdx, NEW i \in EIdx
    PROVE  /\ Weight(CheckStatus(T)[i]) \in {0, 10, 20, 30}
           /\ Weight(CheckStatus(T)[i]) <= SpecCheckCode(T)
<1>1. Entries[i].domain \in Domains
  BY EntryOK DEF EntryType
<1>2. \A j \in T : DaysLeft(Entries[j].domain) \in Int
  BY EntryOK, DaysLeftInt DEF EntryType
<1>3. CASE i \notin T
  BY <1>3 DEF CheckStatus, Weight, SpecCheckCode
<1>4. CASE i \in T
  BY <1>1, <1>2, <1>4, DaysLeftInt DEF CheckStatus, Status, Weight, SpecCheckCode
<1>5. QED
  BY <1>3, <1>4

\* The spec's code is the weight of some target's status, or 0.
LEMMA SpecCodeAttained ==
    ASSUME TypeOK, NEW T \in SUBSET EIdx
    PROVE  \/ SpecCheckCode(T) = 0
           \/ \E i \in EIdx : Weight(CheckStatus(T)[i]) = SpecCheckCode(T)
<1>1. \A j \in T : DaysLeft(Entries[j].domain) \in Int
  BY EntryOK, DaysLeftInt DEF EntryType
<1>2. CASE \E i \in T : live[Entries[i].domain].gen = 0
  BY <1>2 DEF CheckStatus, Status, Weight, SpecCheckCode
<1>3. CASE /\ \A i \in T : live[Entries[i].domain].gen # 0
           /\ \E i \in T : DaysLeft(Entries[i].domain) <= ForceRenewDays
  BY <1>1, <1>3 DEF CheckStatus, Status, Weight, SpecCheckCode
<1>4. CASE /\ \A i \in T : live[Entries[i].domain].gen # 0
           /\ \A i \in T : ~(DaysLeft(Entries[i].domain) <= ForceRenewDays)
           /\ \E i \in T : DaysLeft(Entries[i].domain) <= WarnDays
  BY <1>1, <1>4 DEF CheckStatus, Status, Weight, SpecCheckCode
<1>5. QED
  BY <1>2, <1>3, <1>4 DEF SpecCheckCode

\* check's max-of-weights loop computes the spec's cascade of codes.
LEMMA WorstIsSpecCode ==
    ASSUME TypeOK, NEW T \in SUBSET EIdx
    PROVE  Worst(CheckStatus(T)) = SpecCheckCode(T)
<1> DEFINE ws == {Weight(CheckStatus(T)[i]) : i \in EIdx} \cup {0}
           w  == SpecCheckCode(T)
<1>1. \A i \in EIdx : Weight(CheckStatus(T)[i]) \in {0, 10, 20, 30}
                      /\ Weight(CheckStatus(T)[i]) <= w
  BY WeightBelowSpecCode
<1>2. ws \subseteq Int /\ \A v \in ws : v <= w
  <2>1. \A v \in ws : v = 0 \/ \E i \in EIdx : v = Weight(CheckStatus(T)[i])
    OBVIOUS
  <2>2. w \in Int /\ 0 <= w
    BY DEF SpecCheckCode
  <2>3. QED
    BY <1>1, <2>1, <2>2
<1>3. w \in ws
  BY SpecCodeAttained
<1>4. \A c \in ws : (\A v \in ws : v <= c) => c = w
  <2> SUFFICES ASSUME NEW c \in ws, \A v \in ws : v <= c
               PROVE  c = w
    OBVIOUS
  <2>1. c <= w /\ w <= c
    BY <1>2, <1>3
  <2>2. c \in Int /\ w \in Int
    BY <1>2, <1>3
  <2>3. QED
    BY <2>1, <2>2
<1>5. QED
  BY <1>2, <1>3, <1>4 DEF Worst

(***************************************************************************)
(* CheckExitMatchesSpec for every configuration and every pair of         *)
(* thresholds, in any order: check without --fix exits 30, 20, 10 or 0 as *)
(* spec 4.4 states, whatever the targets' certificates (cli.py 403-439).   *)
(***************************************************************************)
THEOREM CheckExitCorrect == Spec => CheckExitMatchesSpec
<1>1. TypeOK => \A n \in Names \cup {NoName} :
                  CheckInvocation(n, FALSE) => exitCode' = SpecCheckCode(CheckTargets(n))
  <2> SUFFICES ASSUME TypeOK, NEW n \in Names \cup {NoName}, CheckInvocation(n, FALSE)
               PROVE  exitCode' = SpecCheckCode(CheckTargets(n))
    OBVIOUS
  <2>1. CheckTargets(n) \in SUBSET EIdx
    BY DEF CheckTargets, Named
  <2>2. exitCode' = Worst(CheckStatus(CheckTargets(n)))
    BY DEF CheckInvocation, Finish, CheckStatus
  <2>3. QED
    BY <2>1, <2>2, WorstIsSpecCode
<1>2. QED
  BY <1>1, TypeCorrect, PTL DEF CheckExitMatchesSpec

-----------------------------------------------------------------------------
(* What check --fix leaves behind                                          *)

\* No two entries share a name.  The duplicate_fix run shows that the
\* property needs it: new --name acts on the first entry of a name.
UniqueNames == \A i, j \in EIdx : Entries[i].name = Entries[j].name => i = j

(***************************************************************************)
(* The fix loop's invariant: an export runs inside a nested new or renew; *)
(* every entry behind the cursor that check found missing has a lineage;  *)
(* the nested call is the one planned for the entry at the cursor, a new  *)
(* with force and export that targets that entry and has issued by the   *)
(* time it exports, or a renew of an entry that was not missing.          *)
(***************************************************************************)
\* an export runs inside the nested new or renew, after its certbot step
FixExport == exp.active => act.cmd # "none" /\ act.pc = "export"

\* every entry behind the cursor that check found missing has a lineage
FixBehind ==
    \A i \in EIdx : i < chk.ai /\ chk.status[i] = "missing" => live[Entries[i].domain].gen > 0

\* the nested call is the one planned for the entry at the cursor
FixCall == act.cmd # "none" => chk.ai \in EIdx /\ act.name = Entries[chk.ai].name

\* a planned new forces and exports, targets the cursor's entry once its
\* credentials are prepared, and has issued by the time it exports
FixNewCall ==
    act.cmd = "new" => /\ act.force /\ act.export
                       /\ act.pc # "start" => act.target = chk.ai
                       /\ act.pc = "export" => live[Entries[chk.ai].domain].gen > 0

\* a planned renew is for an entry that was not missing
FixRenewCall == act.cmd = "renew" => chk.status[chk.ai] # "missing"

FixInv ==
    chk.phase = "fix" => FixExport /\ FixBehind /\ FixCall /\ FixNewCall /\ FixRenewCall

\* The fix plan passes over no entry it has an action for.
LEMMA NextFixSkips ==
    ASSUME NEW status, NEW from \in Nat \ {0}, NEW i \in Nat,
           from <= i, i < NextFix(status, from)
    PROVE  status[i] \notin {"missing", "force-renew"}
<1> DEFINE S == {j \in from..N : status[j] \in {"missing", "force-renew"}} \cup {N + 1}
<1>1. S \subseteq Nat /\ S # {}
  BY NLen
<1>2. \A j \in S : NextFix(status, from) <= j
  BY <1>1, FirstOfType DEF NextFix
<1>3. NextFix(status, from) \in 1..N+1
  BY NextFixType
<1>4. i \in from..N
  BY <1>3, NLen
<1>5. i \notin S
  BY <1>2, <1>3
<1>6. QED
  BY <1>4, <1>5

\* With unique names, new --name of an entry's name targets that entry.
LEMMA FirstNamedUnique ==
    ASSUME UniqueNames, NEW i \in EIdx
    PROVE  FirstOf(Named(Entries[i].name)) = i
<1>1. Named(Entries[i].name) = {i}
  BY DEF UniqueNames, Named
<1>2. {i} \subseteq Nat
  BY DEF EIdx
<1>3. QED
  BY <1>1, <1>2, FirstOfType

\* Lineages behind the cursor stay, since certbot never removes one.
LEMMA BehindKept ==
    ASSUME TypeOK, TypeOK', FixBehind, chk'.ai = chk.ai, chk'.status = chk.status,
           \A d \in Domains : live[d].gen <= live'[d].gen
    PROVE  FixBehind'
<1> SUFFICES ASSUME NEW i \in EIdx, i < chk.ai, chk.status[i] = "missing"
             PROVE  live'[Entries[i].domain].gen > 0
  BY DEF FixBehind
<1>1. Entries[i].domain \in Domains
  BY EntryOK DEF EntryType
<1>2. live[Entries[i].domain].gen \in Nat /\ live'[Entries[i].domain].gen \in Nat
  BY <1>1 DEF TypeOK, Cert
<1>3. live[Entries[i].domain].gen > 0
  BY DEF FixBehind
<1>4. QED
  BY <1>1, <1>2, <1>3

\* A nested call returning to the fix loop keeps the invariant, when the
\* entry at the cursor was not missing or now has a lineage.
LEMMA CompleteFixStep ==
    ASSUME TypeOK, TypeOK', FixInv, chk.phase = "fix", act.cmd # "none", CompleteAct,
           chk.status[chk.ai] = "missing" => live'[Entries[chk.ai].domain].gen > 0,
           \A d \in Domains : live[d].gen <= live'[d].gen
    PROVE  FixInv'
<1> DEFINE ai2 == NextFix(chk.status, chk.ai + 1)
<1>1. chk' = [chk EXCEPT !.ai = ai2] /\ act' = NoAct /\ exp' = NoExp
  BY DEF CompleteAct
<1>2. chk.ai \in EIdx
  BY DEF FixInv, FixCall
<1>3. ASSUME NEW i \in EIdx, i < ai2, chk.status[i] = "missing"
      PROVE  live'[Entries[i].domain].gen > 0
  <2>1. Entries[i].domain \in Domains
    BY EntryOK DEF EntryType
  <2>2. live[Entries[i].domain].gen \in Nat /\ live'[Entries[i].domain].gen \in Nat
    BY <2>1 DEF TypeOK, Cert
  <2>3. CASE i < chk.ai
    <3>1. live[Entries[i].domain].gen > 0
      BY <2>3, <1>3 DEF FixInv, FixBehind
    <3>2. QED
      BY <2>1, <2>2, <3>1
  <2>4. CASE i = chk.ai
    BY <2>4, <1>3
  <2>5. CASE i > chk.ai
    <3>1. chk.ai + 1 \in Nat \ {0} /\ i \in Nat /\ chk.ai + 1 <= i
      BY <1>2, <2>5 DEF EIdx
    <3>2. chk.status[i] \notin {"missing", "force-renew"}
      BY <3>1, <1>3, NextFixSkips
    <3>3. QED
      BY <3>2, <1>3
  <2>6. QED
    BY <2>3, <2>4, <2>5, <1>2 DEF EIdx
<1>4. FixBehind'
  BY <1>1, <1>3 DEF FixBehind
<1>5. QED
  BY <1>1, <1>4 DEF FixInv, FixExport, FixCall, FixNewCall, FixRenewCall, NoAct, NoExp

\* An invocation or a step that ends the command leaves no fix loop.
LEMMA FinishNoFix ==
    ASSUME NEW code, Finish(code)
    PROVE  FixInv'
BY DEF Finish, NoChk, FixInv

\* A step outside any fix loop that keeps chk leaves none.
LEMMA IdleNoFix ==
    ASSUME chk.phase # "fix", chk' = chk
    PROVE  FixInv'
BY DEF FixInv

\* Each step of the commands keeps the fix loop's invariant.
LEMMA FixInvStep ==
    ASSUME UniqueNames, TypeOK, FixInv, [Next]_vars
    PROVE  FixInv'
<1>0. /\ TypeOK'
      /\ \A d \in Domains : live[d].gen <= live'[d].gen
  BY NextType, LiveGrows
<1>1. CASE InvokeNew
  BY <1>1, IdleNoFix DEF InvokeNew, Idle
<1>2. CASE InvokeRenew
  BY <1>2, IdleNoFix DEF InvokeRenew, Idle
<1>3. CASE InvokeExport
  BY <1>3, IdleNoFix DEF InvokeExport, Idle
<1>4. CASE EditEnv
  BY <1>4, IdleNoFix DEF EditEnv, Idle, frames
<1>5. CASE InvokeCheck
  <2>1. PICK n \in Names \cup {NoName}, fix \in BOOLEAN : CheckInvocation(n, fix)
    BY <1>5 DEF InvokeCheck
  <2> DEFINE st == [i \in EIdx |-> IF i \in CheckTargets(n) THEN Status(i) ELSE "skip"]
  <2>2. CASE fix
    <3>1. chk' = [phase |-> "fix", status |-> st, worst |-> Worst(st), ai |-> NextFix(st, 1)]
          /\ act' = act /\ exp' = exp
      BY <2>1, <2>2 DEF CheckInvocation
    <3>2. act.cmd = "none" /\ ~exp.active
      BY <2>1 DEF CheckInvocation, Idle
    <3>3. ASSUME NEW i \in EIdx, i < NextFix(st, 1)
          PROVE  st[i] # "missing"
      <4>1. i \in Nat /\ 1 <= i /\ 1 \in Nat \ {0}
        BY DEF EIdx
      <4>2. st[i] \notin {"missing", "force-renew"}
        BY <3>3, <4>1, NextFixSkips
      <4>3. QED
        BY <4>2
    <3>4. FixBehind'
      BY <3>1, <3>3 DEF FixBehind
    <3>5. QED
      BY <3>1, <3>2, <3>4 DEF FixInv, FixExport, FixCall, FixNewCall, FixRenewCall
  <2>3. CASE ~fix
    BY <2>1, <2>3, FinishNoFix DEF CheckInvocation
  <2>4. QED
    BY <2>2, <2>3
<1>6. CASE ExportBadParameter \/ CheckNotFound \/ ConfigValidate \/ NewNotFound
           \/ NewUnsupportedProvider \/ NewCertbotFails \/ RenewBadParameter
           \/ RenewNotFound \/ RenewCertbotFails \/ CheckFinish \/ Crash
  BY <1>6, FinishNoFix DEF ExportBadParameter, CheckNotFound, ConfigValidate,
     NewNotFound, NewUnsupportedProvider, NewCertbotFails, RenewBadParameter,
     RenewNotFound, RenewCertbotFails, CertbotFailure, CheckFinish, Crash
<1>7. CASE NewPrepareCredentials
  <2> DEFINE i == FirstOf(Named(act.name))
  <2>1. CASE AliyunCredentialsForEntry(Entries[i], env).ok
    <3>1. act' = [act EXCEPT !.pc = "certbot", !.target = i]
          /\ UNCHANGED <<chk, exp, live>>
      BY <1>7, <2>1 DEF NewPrepareCredentials
    <3>2. act.cmd = "new" /\ act.pc = "start"
      BY <1>7 DEF NewPrepareCredentials
    <3>3. chk.phase = "fix" => i = chk.ai
      BY <3>2, FirstNamedUnique DEF FixInv, FixCall
    <3>4. QED
      BY <3>1, <3>2, <3>3 DEF FixInv, FixExport, FixBehind, FixCall, FixNewCall, FixRenewCall
  <2>2. CASE ~AliyunCredentialsForEntry(Entries[i], env).ok
    BY <1>7, <2>2, FinishNoFix DEF NewPrepareCredentials
  <2>3. QED
    BY <2>1, <2>2
<1>8. CASE RenewPrepareAll
  <2>1. act' = [act EXCEPT !.pc = "certbot", !.target = 0]
        /\ UNCHANGED <<chk, exp, live>>
    BY <1>8 DEF RenewPrepareAll, world
  <2>2. act.cmd = "renew" /\ act.pc = "start"
    BY <1>8 DEF RenewPrepareAll
  <2>3. QED
    BY <2>1, <2>2 DEF FixInv, FixExport, FixBehind, FixCall, FixNewCall, FixRenewCall
<1>20. CASE RenewPrepareEntry
  <2>1. CASE AliyunCredentialsForEntry(Entries[act.ci], env).ok
    <3>1. act' = [act EXCEPT !.ci = @ + 1]
          /\ UNCHANGED <<chk, exp, live>>
      BY <1>20, <2>1 DEF RenewPrepareEntry
    <3>2. act.cmd = "renew" /\ act.pc = "start"
      BY <1>20 DEF RenewPrepareEntry
    <3>3. QED
      BY <3>1, <3>2 DEF FixInv, FixExport, FixBehind, FixCall, FixNewCall, FixRenewCall
  <2>2. CASE ~AliyunCredentialsForEntry(Entries[act.ci], env).ok
    BY <1>20, <2>2, FinishNoFix DEF RenewPrepareEntry
  <2>3. QED
    BY <2>1, <2>2
<1>9. CASE RenewPrepareNamed
  <2> DEFINE i == FirstOf(Named(act.name))
  <2>1. CASE AliyunCredentialsForEntry(Entries[i], env).ok
    <3>1. act' = [act EXCEPT !.pc = "certbot", !.target = i]
          /\ UNCHANGED <<chk, exp, live>>
      BY <1>9, <2>1 DEF RenewPrepareNamed
    <3>2. act.cmd = "renew" /\ act.pc = "start"
      BY <1>9 DEF RenewPrepareNamed
    <3>3. QED
      BY <3>1, <3>2 DEF FixInv, FixExport, FixBehind, FixCall, FixNewCall, FixRenewCall
  <2>2. CASE ~AliyunCredentialsForEntry(Entries[i], env).ok
    BY <1>9, <2>2, FinishNoFix DEF RenewPrepareNamed
  <2>3. QED
    BY <2>1, <2>2
<1>10. CASE NewCertbotSucceeds
  <2>1. CASE chk.phase = "fix"
    <3> DEFINE d == Entries[chk.ai].domain
    <3>1. act.cmd = "new" /\ act.pc = "certbot"
      BY <1>10 DEF NewCertbotSucceeds
    <3>2. act.target = chk.ai /\ act.force /\ act.export /\ chk.ai \in EIdx
      BY <2>1, <3>1 DEF FixInv, FixCall, FixNewCall
    <3>3. d \in Domains /\ live[d].gen \in Nat
      BY <3>2, EntryOK DEF EntryType, TypeOK, Cert
    <3>4. live'[d].gen > 0
      BY <1>10, <3>2, <3>3 DEF NewCertbotSucceeds, CertonlyIssues, Issued, TypeOK
    <3>5. exp'.active /\ act' = [act EXCEPT !.pc = "export"] /\ chk' = chk
      BY <1>10, <3>2 DEF NewCertbotSucceeds, AfterCertbot, ExportFrame
    <3>6. FixBehind'
      BY <1>0, <2>1, <3>5, BehindKept DEF FixInv
    <3>7. QED
      BY <2>1, <3>1, <3>2, <3>4, <3>5, <3>6 DEF FixInv, FixExport, FixCall, FixNewCall, FixRenewCall
  <2>2. CASE chk.phase # "fix"
    <3>1. chk' = chk \/ Finish(0)
      BY <1>10, <2>2 DEF NewCertbotSucceeds, AfterCertbot, CompleteAct
    <3>2. QED
      BY <3>1, <2>2, FinishNoFix, IdleNoFix
  <2>3. QED
    BY <2>1, <2>2
<1>11. CASE RenewCertbotSucceeds
  <2> DEFINE ex == act.export /\ ~On(act.dryRun)
  <2>0. act.cmd = "renew" /\ act.pc = "certbot"
    BY <1>11 DEF RenewCertbotSucceeds
  <2>1. CASE chk.phase = "fix" /\ ex
    <3>1. exp'.active /\ act' = [act EXCEPT !.pc = "export"] /\ chk' = chk
      BY <1>11, <2>1 DEF RenewCertbotSucceeds, AfterCertbot, ExportFrame
    <3>2. FixBehind'
      BY <1>0, <2>1, <3>1, BehindKept DEF FixInv
    <3>3. QED
      BY <2>0, <2>1, <3>1, <3>2 DEF FixInv, FixExport, FixCall, FixNewCall, FixRenewCall
  <2>2. CASE chk.phase = "fix" /\ ~ex
    <3>1. CompleteAct
      BY <1>11, <2>2 DEF RenewCertbotSucceeds, AfterCertbot
    <3>2. chk.status[chk.ai] # "missing"
      BY <2>0, <2>2 DEF FixInv, FixRenewCall
    <3>3. QED
      BY <1>0, <2>0, <2>2, <3>1, <3>2, CompleteFixStep
  <2>3. CASE chk.phase # "fix"
    <3>1. chk' = chk \/ Finish(0)
      BY <1>11, <2>3 DEF RenewCertbotSucceeds, AfterCertbot, CompleteAct
    <3>2. QED
      BY <3>1, <2>3, FinishNoFix, IdleNoFix
  <2>4. QED
    BY <2>1, <2>2, <2>3
<1>12. CASE ExportCopy
  <2>1. exp'.active = exp.active /\ chk' = chk /\ act' = act /\ live' = live
    BY <1>12 DEF ExportCopy, NextFile, TypeOK, ExpFrame
  <2>2. QED
    BY <2>1 DEF FixInv, FixExport, FixBehind, FixCall, FixNewCall, FixRenewCall
<1>13. CASE ExportSkip
  <2>1. exp'.active = exp.active /\ chk' = chk /\ act' = act /\ live' = live
    BY <1>13 DEF ExportSkip, NextFile, world, TypeOK, ExpFrame
  <2>2. QED
    BY <2>1 DEF FixInv, FixExport, FixBehind, FixCall, FixNewCall, FixRenewCall
<1>14. CASE ExportDone
  <2>1. CASE chk.phase = "fix"
    <3>1. exp.active /\ CompleteAct /\ live' = live
      BY <1>14, <2>1 DEF ExportDone, FixInv, FixExport, world
    <3>2. act.cmd # "none" /\ act.pc = "export"
      BY <2>1, <3>1 DEF FixInv, FixExport
    <3>3. act.cmd \in {"new", "renew"}
      BY <3>2 DEF TypeOK, ActFrame
    <3>4. chk.status[chk.ai] = "missing" => live'[Entries[chk.ai].domain].gen > 0
      BY <2>1, <3>1, <3>2, <3>3 DEF FixInv, FixNewCall, FixRenewCall
    <3>5. QED
      BY <1>0, <2>1, <3>1, <3>2, <3>4, CompleteFixStep
  <2>2. CASE chk.phase # "fix"
    BY <1>14, <2>2, FinishNoFix DEF ExportDone, CompleteAct
  <2>3. QED
    BY <2>1, <2>2
<1>15. CASE FixNew
  <2>1. chk.phase = "fix" /\ act.cmd = "none" /\ chk.ai \in EIdx
    BY <1>15 DEF FixNew, TypeOK, ChkFrame, EIdx
  <2>2. ~exp.active
    BY <2>1 DEF FixInv, FixExport
  <2>3. act' = [NoAct EXCEPT !.cmd = "new", !.name = Entries[chk.ai].name,
                             !.force = TRUE, !.export = TRUE, !.verbose = OptionInfo]
        /\ UNCHANGED <<chk, exp, live>>
    BY <1>15 DEF FixNew, world
  <2>4. QED
    BY <2>1, <2>2, <2>3 DEF FixInv, FixExport, FixBehind, FixCall, FixNewCall,
       FixRenewCall, NoAct
<1>16. CASE FixRenew
  <2>1. chk.phase = "fix" /\ act.cmd = "none" /\ chk.ai \in EIdx
        /\ chk.status[chk.ai] = "force-renew"
    BY <1>16 DEF FixRenew, TypeOK, ChkFrame, EIdx
  <2>2. ~exp.active
    BY <2>1 DEF FixInv, FixExport
  <2>3. act'.cmd = "renew" /\ act'.name = Entries[chk.ai].name
        /\ UNCHANGED <<chk, exp, live>>
    BY <1>16 DEF FixRenew, NoAct, world
  <2>4. QED
    BY <2>1, <2>2, <2>3 DEF FixInv, FixExport, FixBehind, FixCall, FixNewCall, FixRenewCall
<1>17. CASE PassDay
  BY <1>17 DEF PassDay, frames, FixInv, FixExport, FixBehind, FixCall, FixNewCall, FixRenewCall
<1>18. CASE UNCHANGED vars
  BY <1>18 DEF vars, world, frames, FixInv, FixExport, FixBehind, FixCall, FixNewCall,
     FixRenewCall
<1>19. QED
  BY <1>1, <1>2, <1>3, <1>4, <1>5, <1>6, <1>7, <1>8, <1>9, <1>10, <1>11, <1>12,
     <1>13, <1>14, <1>15, <1>16, <1>17, <1>18, <1>20 DEF Next

\* The only step by which check --fix ends with its own exit code, and not
\* inside a nested call, is CheckFinish, past the last planned action.
LEMMA FixEndsByCheckFinish ==
    ASSUME FixInv, [Next]_vars,
           chk.phase = "fix", act.cmd = "none", chk'.phase = "idle", exitCode' # Killed
    PROVE  CheckFinish
<1>1. ~exp.active /\ ~Idle
  BY DEF FixInv, FixExport, Idle
<1>2. ~(NewNotFound \/ NewUnsupportedProvider \/ NewPrepareCredentials
        \/ NewCertbotSucceeds \/ NewCertbotFails \/ RenewBadParameter
        \/ RenewPrepareEntry \/ RenewPrepareAll \/ RenewNotFound \/ RenewPrepareNamed
        \/ RenewCertbotSucceeds \/ RenewCertbotFails)
  BY DEF NewNotFound, NewUnsupportedProvider, NewPrepareCredentials,
     NewCertbotSucceeds, NewCertbotFails, RenewBadParameter, RenewPrepareEntry, RenewPrepareAll,
     RenewNotFound, RenewPrepareNamed, RenewCertbotSucceeds, RenewCertbotFails
<1>3. ~(InvokeNew \/ InvokeRenew \/ InvokeExport \/ InvokeCheck \/ ExportBadParameter
        \/ CheckNotFound \/ ConfigValidate \/ EditEnv)
  BY <1>1 DEF InvokeNew, InvokeRenew, InvokeExport, InvokeCheck, CheckInvocation,
     ExportBadParameter, CheckNotFound, ConfigValidate, EditEnv
<1>4. ~(ExportCopy \/ ExportSkip \/ ExportDone)
  BY <1>1 DEF ExportCopy, ExportSkip, ExportDone
<1>5. ~(FixNew \/ FixRenew \/ PassDay \/ Crash \/ UNCHANGED vars)
  BY DEF FixNew, FixRenew, PassDay, frames, Crash, Finish, vars
<1>6. QED
  BY <1>2, <1>3, <1>4, <1>5 DEF Next

(***************************************************************************)
(* FixIssuesMissing for every configuration whose entry names are unique: *)
(* when check --fix returns its own exit code, every entry it found       *)
(* missing has a certificate lineage (cli.py 444-470, 131).  The           *)
(* duplicate_fix run shows the property fails without unique names.       *)
(***************************************************************************)
THEOREM FixIssuesMissingCorrect ==
    ASSUME UniqueNames
    PROVE  Spec => FixIssuesMissing
<1>1. Init => FixInv
  BY DEF Init, NoChk, FixInv
<1>2. TypeOK /\ FixInv /\ [Next]_vars => FixInv'
  BY FixInvStep
<1>3. TypeOK /\ FixInv /\ [Next]_vars =>
        [/\ chk.phase = "fix" /\ act.cmd = "none"
         /\ chk'.phase = "idle" /\ exitCode' # Killed
         => \A i \in EIdx : chk.status[i] = "missing" => live'[Entries[i].domain].gen > 0]_vars
  <2> SUFFICES ASSUME TypeOK, FixInv, [Next]_vars,
                      chk.phase = "fix", act.cmd = "none",
                      chk'.phase = "idle", exitCode' # Killed,
                      NEW i \in EIdx, chk.status[i] = "missing"
               PROVE  live'[Entries[i].domain].gen > 0
    OBVIOUS
  <2>1. CheckFinish
    BY FixEndsByCheckFinish
  <2>2. chk.ai = N + 1 /\ live' = live
    BY <2>1 DEF CheckFinish, world
  <2>3. i < chk.ai
    BY <2>2, NLen DEF EIdx
  <2>4. QED
    BY <2>2, <2>3 DEF FixInv, FixBehind
<1>4. QED
  BY <1>1, <1>2, <1>3, InitType, TypeCorrect, PTL DEF Spec, FixIssuesMissing

-----------------------------------------------------------------------------
(* What a new or renew that exports leaves in output/                      *)

\* export has already visited file f of entry i: an earlier entry, or an
\* earlier index of _EXPORT_FILES in the entry it is at
Exported(i, f) ==
    \/ i < exp.ei
    \/ i = exp.ei /\ \E k \in 1..(exp.fi - 1) : ExportFiles[k] = f

(***************************************************************************)
(* The invariant of the export that new and renew run after certbot (cli  *)
(* py 208-215, 306-316), by which IssuedIsExported holds.  --all is only  *)
(* given to renew, without a name; certbot runs for the first entry of    *)
(* act.name, or for all lineages with --all.  While the nested export     *)
(* runs it overwrites, its name selects every handled entry, every        *)
(* handled entry has a certificate, and every file export has passed of   *)
(* a handled entry holds the live certificate: a later write to another   *)
(* entry's directory cannot touch it, as names are unique.  TLC checks it *)
(* as an invariant of the lifecycle and check_policy configurations.      *)
(***************************************************************************)
ActAll == act.all => act.cmd = "renew" /\ act.name = NoName
CertbotTarget ==
    act.pc = "certbot" =>
        /\ act.target # 0 => Entries[act.target].name = act.name /\ ~act.all
        /\ act.target = 0 => act.cmd = "renew" /\ act.all
ExpNested ==
    /\ exp.active /\ exp.overwrite /\ act.cmd \in {"new", "renew"}
    /\ act.target # 0 => exp.name = Entries[act.target].name
    /\ act.target = 0 => exp.name = NoName
HandledIssued == \A i \in Handled : live[Entries[i].domain].gen > 0
HandledCopied ==
    \A i \in Handled, f \in Files :
        Exported(i, f) => output[Entries[i].name][f] = CopyOf(Entries[i].domain)
ExportInv ==
    /\ ActAll /\ CertbotTarget
    /\ act.pc = "export" => ExpNested /\ HandledIssued /\ HandledCopied

\* The next target of export is never past an entry it targets.
LEMMA NextTargetLe ==
    ASSUME NEW n, NEW from \in Nat \ {0}, NEW i \in EIdx, from <= i,
           n = NoName \/ Entries[i].name = n
    PROVE  NextTarget(n, from) <= i
<1> DEFINE S == {j \in from..N : n = NoName \/ Entries[j].name = n} \cup {N + 1}
<1>1. S \subseteq Nat /\ S # {}
  BY NLen
<1>2. i \in S
  BY DEF EIdx
<1>3. QED
  BY <1>1, <1>2, FirstOfType DEF NextTarget

\* A step of the file loop of export visits one more file: the one at
\* exp.fi of the entry at exp.ei; a target it skips was visited before.
LEMMA NextFileExported ==
    ASSUME TypeOK, exp' = NextFile, NEW i \in EIdx, NEW f \in Files,
           exp.name = NoName \/ Entries[i].name = exp.name,
           Exported(i, f)'
    PROVE  Exported(i, f) \/ (i = exp.ei /\ f = ExportFiles[exp.fi])
<1>0. /\ exp.ei \in 1..N+1 /\ Len(ExportFiles) \in Nat
      /\ exp.fi \in 1..Len(ExportFiles)
  BY CertmanAssumption DEF TypeOK, ExpFrame
<1>1. PICK k \in 1..Len(ExportFiles) : ExportFiles[k] = f
  BY CertmanAssumption DEF Files
<1>2. CASE exp.fi < Len(ExportFiles)
  <2>1. exp'.ei = exp.ei /\ exp'.fi = exp.fi + 1
    BY <1>0, <1>2 DEF NextFile, TypeOK, ExpFrame
  <2>2. QED
    BY <1>0, <2>1 DEF Exported
<1>3. CASE ~(exp.fi < Len(ExportFiles))
  <2>1. exp'.ei = NextTarget(exp.name, exp.ei + 1) /\ exp'.fi = 1
    BY <1>0, <1>3 DEF NextFile, TypeOK, ExpFrame
  <2>2. i < exp'.ei
    BY <2>1 DEF Exported
  <2>3. i <= exp.ei
    <3>1. ASSUME exp.ei + 1 <= i PROVE FALSE
      <4>1. exp.ei + 1 \in Nat \ {0}
        BY <1>0
      <4>2. NextTarget(exp.name, exp.ei + 1) <= i
        BY <3>1, <4>1, NextTargetLe
      <4>3. NextTarget(exp.name, exp.ei + 1) \in 1..N+1
        BY <4>1, NextTargetType
      <4>4. QED
        BY <2>1, <2>2, <4>2, <4>3, NLen DEF EIdx
    <3>2. QED
      BY <1>0, <3>1 DEF EIdx
  <2>4. exp.fi = Len(ExportFiles)
    BY <1>0, <1>3
  <2>5. CASE i < exp.ei
    BY <2>5 DEF Exported
  <2>6. CASE i = exp.ei /\ k < exp.fi
    <3>1. k \in 1..(exp.fi - 1)
      BY <1>0, <2>6
    <3>2. QED
      BY <1>1, <2>6, <3>1 DEF Exported
  <2>7. CASE i = exp.ei /\ ~(k < exp.fi)
    BY <1>0, <1>1, <2>4, <2>7
  <2>8. QED
    BY <1>0, <2>3, <2>5, <2>6, <2>7 DEF EIdx
<1>4. QED
  BY <1>2, <1>3


\* A handled entry is an entry the nested export targets.
LEMMA HandledTarget ==
    ASSUME TypeOK, ExpNested, NEW i \in Handled
    PROVE  i \in EIdx /\ (exp.name = NoName \/ Entries[i].name = exp.name)
BY DEF Handled, ExpNested, TypeOK, ActFrame, EIdx

\* A copy of a file keeps the invariant: it writes the live certificate of
\* the entry at hand, into a directory no other entry uses.
LEMMA ExportCopyInv ==
    ASSUME UniqueNames, TypeOK, ExportInv, ExportCopy
    PROVE  ExportInv'
<1>1. act' = act /\ live' = live /\ exp' = NextFile
  BY DEF ExportCopy
<1>2. ActAll' /\ CertbotTarget'
  BY <1>1 DEF ExportInv, ActAll, CertbotTarget
<1>3. SUFFICES ASSUME act.pc = "export"
               PROVE  ExpNested' /\ HandledIssued' /\ HandledCopied'
  BY <1>1, <1>2 DEF ExportInv
<1>4. /\ exp'.active = exp.active /\ exp'.overwrite = exp.overwrite
      /\ exp'.name = exp.name
  BY <1>1 DEF NextFile, TypeOK, ExpFrame
<1>5. Handled' = Handled
  BY <1>1 DEF Handled
<1>6. ExpNested'
  BY <1>1, <1>3, <1>4 DEF ExportInv, ExpNested
<1>7. HandledIssued'
  BY <1>1, <1>3, <1>5 DEF ExportInv, HandledIssued
<1>8. HandledCopied'
  <2> SUFFICES ASSUME NEW i \in Handled, NEW f \in Files, Exported(i, f)'
               PROVE  output'[Entries[i].name][f] = CopyOf(Entries[i].domain)
    BY <1>1, <1>5 DEF HandledCopied, CopyOf
  <2> DEFINE e == exp.ei
             g == ExportFiles[exp.fi]
  <2>1. i \in EIdx /\ (exp.name = NoName \/ Entries[i].name = exp.name)
    BY <1>3, HandledTarget DEF ExportInv
  <2>2. Exported(i, f) \/ (i = e /\ f = g)
    BY <1>1, <2>1, NextFileExported
  <2>3. /\ e \in EIdx /\ g \in Files
        /\ Entries[e].name \in Names /\ Entries[i].name \in Names
    BY <2>1, EntryOK, CertmanAssumption DEF ExportCopy, TypeOK, ExpFrame, EIdx,
       Files, EntryType
  <2>4. output' = [output EXCEPT ![Entries[e].name][g] = CopyOf(Entries[e].domain)]
    BY DEF ExportCopy
  <2>5. CASE Entries[i].name = Entries[e].name /\ f = g
    <3>1. i = e
      BY <2>1, <2>3, <2>5 DEF UniqueNames
    <3>2. QED
      BY <2>3, <2>4, <2>5, <3>1 DEF TypeOK
  <2>6. CASE ~(Entries[i].name = Entries[e].name /\ f = g)
    <3>1. output'[Entries[i].name][f] = output[Entries[i].name][f]
      BY <2>3, <2>4, <2>6 DEF TypeOK
    <3>2. Exported(i, f)
      BY <2>2, <2>6
    <3>3. QED
      BY <1>3, <3>1, <3>2 DEF ExportInv, HandledCopied
  <2>7. QED
    BY <2>5, <2>6
<1>9. QED
  BY <1>6, <1>7, <1>8

\* A skipped file keeps the invariant: the nested export overwrites and
\* every handled entry has a certificate, so it never skips one of them.
LEMMA ExportSkipInv ==
    ASSUME TypeOK, ExportInv, ExportSkip
    PROVE  ExportInv'
<1>1. act' = act /\ live' = live /\ output' = output /\ exp' = NextFile
  BY DEF ExportSkip, world
<1>2. ActAll' /\ CertbotTarget'
  BY <1>1 DEF ExportInv, ActAll, CertbotTarget
<1>3. SUFFICES ASSUME act.pc = "export"
               PROVE  ExpNested' /\ HandledIssued' /\ HandledCopied'
  BY <1>1, <1>2 DEF ExportInv
<1>4. /\ exp'.active = exp.active /\ exp'.overwrite = exp.overwrite
      /\ exp'.name = exp.name
  BY <1>1 DEF NextFile, TypeOK, ExpFrame
<1>5. Handled' = Handled
  BY <1>1 DEF Handled
<1>6. ExpNested'
  BY <1>1, <1>3, <1>4 DEF ExportInv, ExpNested
<1>7. HandledIssued'
  BY <1>1, <1>3, <1>5 DEF ExportInv, HandledIssued
<1>8. exp.ei \notin Handled
  BY <1>3 DEF ExportSkip, ExportInv, ExpNested, HandledIssued
<1>9. HandledCopied'
  <2> SUFFICES ASSUME NEW i \in Handled, NEW f \in Files, Exported(i, f)'
               PROVE  output[Entries[i].name][f] = CopyOf(Entries[i].domain)
    BY <1>1, <1>5 DEF HandledCopied, CopyOf
  <2>1. i \in EIdx /\ (exp.name = NoName \/ Entries[i].name = exp.name)
    BY <1>3, HandledTarget DEF ExportInv
  <2>2. Exported(i, f)
    BY <1>1, <1>8, <2>1, NextFileExported
  <2>3. QED
    BY <1>3, <2>2 DEF ExportInv, HandledCopied
<1>10. QED
  BY <1>6, <1>7, <1>9


\* A command that returns, or has not reached certbot, keeps the invariant.
LEMMA FinishExportInv ==
    ASSUME NEW code, Finish(code)
    PROVE  ExportInv'
BY DEF Finish, NoAct, ExportInv, ActAll, CertbotTarget

\* Steps that change neither act nor what the export has written keep it.
LEMMA ExportInvKept ==
    ASSUME ExportInv, act' = act, exp' = exp, live' = live, output' = output
    PROVE  ExportInv'
BY DEF ExportInv, ActAll, CertbotTarget, ExpNested, HandledIssued, HandledCopied,
   Handled, Exported, CopyOf

\* An export that has just started has visited no file of its targets.
LEMMA FreshExportCopied ==
    ASSUME TypeOK', ExpNested', exp'.ei = NextTarget(exp'.name, 1), exp'.fi = 1
    PROVE  HandledCopied'
<1> SUFFICES ASSUME NEW i \in Handled', NEW f \in Files PROVE ~Exported(i, f)'
  BY DEF HandledCopied
<1>1. i \in EIdx /\ (exp'.name = NoName \/ Entries[i].name = exp'.name)
  BY DEF Handled, ExpNested, TypeOK, ActFrame, EIdx
<1>2. /\ NextTarget(exp'.name, 1) <= i
      /\ NextTarget(exp'.name, 1) \in 1..N+1
  <2>1. 1 \in Nat \ {0} /\ 1 <= i
    BY <1>1 DEF EIdx
  <2>2. QED
    BY <1>1, <2>1, NextTargetLe, NextTargetType
<1>3. QED
  BY <1>1, <1>2, NLen DEF Exported, EIdx

\* certbot certonly, then export(overwrite=True) of the entry's name
\* (cli.py 197-215): a certificate for the handled entry, nothing visited.
LEMMA NewCertbotExportInv ==
    ASSUME TypeOK, TypeOK', ExportInv, NewCertbotSucceeds
    PROVE  ExportInv'
<1> DEFINE t == act.target
           d == Entries[t].domain
<1>1. act.cmd = "new" /\ act.pc = "certbot"
  BY DEF NewCertbotSucceeds
<1>2. t \in EIdx /\ Entries[t].name = act.name /\ ~act.all
  BY <1>1 DEF ExportInv, CertbotTarget, TypeOK, ActFrame, EIdx
<1>3. CASE act.export
  <2>1. act' = [act EXCEPT !.pc = "export"] /\ exp' = ExportFrame(act.name, TRUE)
    BY <1>3 DEF NewCertbotSucceeds, AfterCertbot
  <2>2. ActAll' /\ CertbotTarget'
    BY <1>2, <2>1 DEF ActAll, CertbotTarget
  <2>3. ExpNested'
    BY <1>1, <1>2, <2>1 DEF ExpNested, ExportFrame, TypeOK, ActFrame, EIdx
  <2>4. d \in Domains /\ live[d].gen \in Nat
    BY <1>2, EntryOK DEF EntryType, TypeOK, Cert
  <2>5. live'[d].gen > 0
    BY <2>4 DEF NewCertbotSucceeds, CertonlyIssues, Issued, TypeOK
  <2>6. HandledIssued'
    BY <1>2, <2>1, <2>5 DEF HandledIssued, Handled, EIdx
  <2>7. HandledCopied'
    BY <2>1, <2>3, FreshExportCopied DEF ExportFrame
  <2>8. QED
    BY <2>2, <2>3, <2>6, <2>7 DEF ExportInv
<1>4. CASE ~act.export
  <2>1. CompleteAct
    BY <1>4 DEF NewCertbotSucceeds, AfterCertbot
  <2>2. CASE chk.phase = "fix"
    BY <2>1, <2>2 DEF CompleteAct, NoAct, ExportInv, ActAll, CertbotTarget
  <2>3. CASE chk.phase # "fix"
    BY <2>1, <2>3, FinishExportInv DEF CompleteAct
  <2>4. QED
    BY <2>2, <2>3
<1>5. QED
  BY <1>3, <1>4

\* certbot renew, then export(overwrite=True) of the --name, or of all
\* entries with --all (cli.py 296-316).
LEMMA RenewCertbotExportInv ==
    ASSUME TypeOK, TypeOK', ExportInv, RenewCertbotSucceeds,
           \A dd \in Domains : live[dd].gen <= live'[dd].gen
    PROVE  ExportInv'
<1> DEFINE t == act.target
           n == IF act.name # NoName /\ ~act.all THEN act.name ELSE NoName
<1>1. act.cmd = "renew" /\ act.pc = "certbot"
  BY DEF RenewCertbotSucceeds
<1>2. CASE act.export /\ ~On(act.dryRun)
  <2>1. act' = [act EXCEPT !.pc = "export"] /\ exp' = ExportFrame(n, TRUE)
    BY <1>2 DEF RenewCertbotSucceeds, AfterCertbot
  <2>2. ActAll' /\ CertbotTarget'
    BY <2>1 DEF ExportInv, ActAll, CertbotTarget
  <2>3. t # 0 => /\ t \in EIdx /\ n = Entries[t].name
                 /\ live[Entries[t].domain].gen > 0
    BY <1>1, EntryOK, CertmanAssumption
       DEF ExportInv, CertbotTarget, RenewCertbotSucceeds, TypeOK, ActFrame, EIdx,
           EntryType
  <2>4. t = 0 => n = NoName
    BY <1>1 DEF ExportInv, CertbotTarget
  <2>5. ExpNested'
    BY <1>1, <2>1, <2>3, <2>4 DEF ExpNested, ExportFrame, TypeOK, ActFrame
  <2>6. HandledIssued'
    <3>1. CASE t # 0
      <4>1. Entries[t].domain \in Domains /\ live[Entries[t].domain].gen \in Nat
        BY <2>3, <3>1, EntryOK DEF EntryType, TypeOK, Cert
      <4>2. live'[Entries[t].domain].gen > 0
        BY <2>3, <3>1, <4>1 DEF TypeOK, Cert
      <4>3. QED
        BY <2>1, <3>1, <4>2 DEF HandledIssued, Handled
    <3>2. CASE t = 0
      BY <2>1, <3>2 DEF HandledIssued, Handled
    <3>3. QED
      BY <3>1, <3>2
  <2>7. HandledCopied'
    BY <2>1, <2>5, FreshExportCopied DEF ExportFrame
  <2>8. QED
    BY <2>2, <2>5, <2>6, <2>7 DEF ExportInv
<1>3. CASE ~(act.export /\ ~On(act.dryRun))
  <2>1. CompleteAct
    BY <1>3 DEF RenewCertbotSucceeds, AfterCertbot
  <2>2. CASE chk.phase = "fix"
    BY <2>1, <2>2 DEF CompleteAct, NoAct, ExportInv, ActAll, CertbotTarget
  <2>3. CASE chk.phase # "fix"
    BY <2>1, <2>3, FinishExportInv DEF CompleteAct
  <2>4. QED
    BY <2>2, <2>3
<1>4. QED
  BY <1>2, <1>3


\* The first entry of a name carries that name.
LEMMA FirstNamedName ==
    ASSUME NEW n, Named(n) # {}
    PROVE  FirstOf(Named(n)) \in EIdx /\ Entries[FirstOf(Named(n))].name = n
<1>1. Named(n) \subseteq Nat
  BY DEF Named, EIdx
<1>2. FirstOf(Named(n)) \in Named(n)
  BY <1>1, FirstOfType
<1>3. QED
  BY <1>2 DEF Named

\* Each step of the commands keeps the export invariant.
LEMMA ExportInvStep ==
    ASSUME UniqueNames, TypeOK, ExportInv, [Next]_vars
    PROVE  ExportInv'
<1>0. /\ TypeOK'
      /\ \A d \in Domains : live[d].gen <= live'[d].gen
  BY NextType, LiveGrows
<1>1. CASE InvokeNew
  BY <1>1 DEF InvokeNew, NoAct, ExportInv, ActAll, CertbotTarget
<1>2. CASE InvokeRenew
  <2>1. PICK all \in BOOLEAN, n \in Names \cup {NoName}, force, dry, ex \in BOOLEAN :
               /\ all => n = NoName
               /\ act' = [NoAct EXCEPT !.cmd = "renew", !.all = all, !.name = n,
                                       !.force = force, !.dryRun = dry, !.export = ex]
    BY <1>2 DEF InvokeRenew
  <2>2. QED
    BY <2>1 DEF NoAct, ExportInv, ActAll, CertbotTarget
<1>3. CASE InvokeExport
  BY <1>3 DEF InvokeExport, Idle, ExportInv, ExpNested, ActAll, CertbotTarget
<1>4. CASE EditEnv
  BY <1>4, ExportInvKept DEF EditEnv, frames
<1>5. CASE InvokeCheck
  <2>1. PICK n \in Names \cup {NoName}, fix \in BOOLEAN : CheckInvocation(n, fix)
    BY <1>5 DEF InvokeCheck
  <2>2. CASE fix
    BY <2>1, <2>2, ExportInvKept DEF CheckInvocation, world
  <2>3. CASE ~fix
    BY <2>1, <2>3, FinishExportInv DEF CheckInvocation
  <2>4. QED
    BY <2>2, <2>3
<1>6. CASE ExportBadParameter \/ CheckNotFound \/ ConfigValidate \/ NewNotFound
           \/ NewUnsupportedProvider \/ NewCertbotFails \/ RenewBadParameter
           \/ RenewNotFound \/ RenewCertbotFails \/ CheckFinish \/ Crash
  BY <1>6, FinishExportInv DEF ExportBadParameter, CheckNotFound, ConfigValidate,
     NewNotFound, NewUnsupportedProvider, NewCertbotFails, RenewBadParameter,
     RenewNotFound, RenewCertbotFails, CertbotFailure, CheckFinish, Crash
<1>7. CASE NewPrepareCredentials
  <2> DEFINE i == FirstOf(Named(act.name))
  <2>1. CASE AliyunCredentialsForEntry(Entries[i], env).ok
    <3>1. act' = [act EXCEPT !.pc = "certbot", !.target = i]
      BY <1>7, <2>1 DEF NewPrepareCredentials
    <3>2. act.cmd = "new" /\ i \in EIdx /\ Entries[i].name = act.name
      BY <1>7, FirstNamedName DEF NewPrepareCredentials
    <3>3. QED
      BY <3>1, <3>2 DEF ExportInv, ActAll, CertbotTarget, TypeOK, ActFrame, EIdx
  <2>2. CASE ~AliyunCredentialsForEntry(Entries[i], env).ok
    BY <1>7, <2>2, FinishExportInv DEF NewPrepareCredentials
  <2>3. QED
    BY <2>1, <2>2
<1>8. CASE RenewPrepareAll
  <2>1. act' = [act EXCEPT !.pc = "certbot", !.target = 0]
    BY <1>8 DEF RenewPrepareAll
  <2>2. act.cmd = "renew" /\ act.all
    BY <1>8 DEF RenewPrepareAll
  <2>3. QED
    BY <2>1, <2>2 DEF ExportInv, ActAll, CertbotTarget, TypeOK, ActFrame
<1>20. CASE RenewPrepareEntry
  <2>1. CASE AliyunCredentialsForEntry(Entries[act.ci], env).ok
    <3>1. act' = [act EXCEPT !.ci = @ + 1]
      BY <1>20, <2>1 DEF RenewPrepareEntry
    <3>2. act.cmd = "renew" /\ act.pc = "start" /\ act.all
      BY <1>20 DEF RenewPrepareEntry
    <3>3. QED
      BY <3>1, <3>2 DEF ExportInv, ActAll, CertbotTarget, TypeOK, ActFrame
  <2>2. CASE ~AliyunCredentialsForEntry(Entries[act.ci], env).ok
    BY <1>20, <2>2, FinishExportInv DEF RenewPrepareEntry
  <2>3. QED
    BY <2>1, <2>2
<1>9. CASE RenewPrepareNamed
  <2> DEFINE i == FirstOf(Named(act.name))
  <2>1. CASE AliyunCredentialsForEntry(Entries[i], env).ok
    <3>1. act' = [act EXCEPT !.pc = "certbot", !.target = i]
      BY <1>9, <2>1 DEF RenewPrepareNamed
    <3>2. ~act.all /\ i \in EIdx /\ Entries[i].name = act.name
      BY <1>9, FirstNamedName DEF RenewPrepareNamed
    <3>3. QED
      BY <3>1, <3>2 DEF ExportInv, ActAll, CertbotTarget, TypeOK, ActFrame, EIdx
  <2>2. CASE ~AliyunCredentialsForEntry(Entries[i], env).ok
    BY <1>9, <2>2, FinishExportInv DEF RenewPrepareNamed
  <2>3. QED
    BY <2>1, <2>2
<1>10. CASE NewCertbotSucceeds
  BY <1>0, <1>10, NewCertbotExportInv
<1>11. CASE RenewCertbotSucceeds
  BY <1>0, <1>11, RenewCertbotExportInv
<1>12. CASE ExportCopy
  BY <1>12, ExportCopyInv
<1>13. CASE ExportSkip
  BY <1>13, ExportSkipInv
<1>14. CASE ExportDone
  <2>1. act' = NoAct
    BY <1>14 DEF ExportDone, CompleteAct, Finish
  <2>2. QED
    BY <2>1 DEF NoAct, ExportInv, ActAll, CertbotTarget
<1>15. CASE FixNew
  BY <1>15 DEF FixNew, NoAct, ExportInv, ActAll, CertbotTarget
<1>16. CASE FixRenew
  BY <1>16 DEF FixRenew, NoAct, ExportInv, ActAll, CertbotTarget
<1>17. CASE PassDay
  BY <1>17, ExportInvKept DEF PassDay, frames
<1>18. CASE UNCHANGED vars
  BY <1>18, ExportInvKept DEF vars, world, frames
<1>19. QED
  BY <1>1, <1>2, <1>3, <1>4, <1>5, <1>6, <1>7, <1>8, <1>9, <1>10, <1>11, <1>12,
     <1>13, <1>14, <1>15, <1>16, <1>17, <1>18, <1>20 DEF Next


\* The only step by which a new or renew that exports returns, other than
\* a kill of the process, is the end of its export.
LEMMA ExportReturnsByExportDone ==
    ASSUME ExportInv, [Next]_vars, IssueExportReturns
    PROVE  ExportDone
<1>1. act.cmd \in {"new", "renew"} /\ act.pc = "export" /\ act'.cmd = "none"
      /\ exitCode' # Killed /\ ~Idle
  BY DEF IssueExportReturns, Idle
<1>2. ~(NewNotFound \/ NewUnsupportedProvider \/ NewPrepareCredentials
        \/ NewCertbotSucceeds \/ NewCertbotFails \/ RenewBadParameter
        \/ RenewPrepareEntry \/ RenewPrepareAll \/ RenewNotFound \/ RenewPrepareNamed
        \/ RenewCertbotSucceeds \/ RenewCertbotFails)
  BY <1>1 DEF NewNotFound, NewUnsupportedProvider, NewPrepareCredentials,
     NewCertbotSucceeds, NewCertbotFails, RenewBadParameter, RenewPrepareEntry, RenewPrepareAll,
     RenewNotFound, RenewPrepareNamed, RenewCertbotSucceeds, RenewCertbotFails
<1>3. ~(InvokeNew \/ InvokeRenew \/ InvokeExport \/ InvokeCheck \/ ExportBadParameter
        \/ CheckNotFound \/ ConfigValidate \/ EditEnv)
  BY <1>1 DEF InvokeNew, InvokeRenew, InvokeExport, InvokeCheck, CheckInvocation,
     ExportBadParameter, CheckNotFound, ConfigValidate, EditEnv
<1>4. ~(ExportCopy \/ ExportSkip \/ CheckFinish \/ FixNew \/ FixRenew)
  BY <1>1 DEF ExportCopy, ExportSkip, CheckFinish, FixNew, FixRenew
<1>5. ~(PassDay \/ Crash \/ UNCHANGED vars)
  BY <1>1 DEF PassDay, frames, Crash, Finish, vars
<1>6. QED
  BY <1>2, <1>3, <1>4, <1>5 DEF Next

(***************************************************************************)
(* IssuedIsExported for every configuration whose entry names are unique: *)
(* when new or renew, from the command line or from check --fix, returns  *)
(* after its export (cli.py 208-217, 306-318), output/<name>/<file> of    *)
(* every entry it handled holds the live certificate of that entry's      *)
(* primary domain, in every export file, whatever an earlier, killed or   *)
(* --no-overwrite export left there.  The duplicate_export run shows the  *)
(* property fails when two entries share a name.                          *)
(***************************************************************************)
THEOREM IssuedIsExportedCorrect ==
    ASSUME UniqueNames
    PROVE  Spec => IssuedIsExported
<1>1. Init => ExportInv
  BY DEF Init, NoAct, ExportInv, ActAll, CertbotTarget
<1>2. TypeOK /\ ExportInv /\ [Next]_vars => ExportInv'
  BY ExportInvStep
<1>3. TypeOK /\ ExportInv /\ [Next]_vars =>
        [IssueExportReturns =>
           \A i \in Handled, f \in Files :
              output'[Entries[i].name][f] = [domain |-> Entries[i].domain,
                                             gen |-> live'[Entries[i].domain].gen]]_vars
  <2> SUFFICES ASSUME TypeOK, ExportInv, [Next]_vars, IssueExportReturns,
                      NEW i \in Handled, NEW f \in Files
               PROVE  output'[Entries[i].name][f] = CopyOf(Entries[i].domain)'
    BY DEF CopyOf
  <2>1. ExportDone
    BY ExportReturnsByExportDone
  <2>2. exp.ei = N + 1 /\ output' = output /\ live' = live
    BY <2>1 DEF ExportDone, world
  <2>3. act.pc = "export"
    BY DEF IssueExportReturns
  <2>4. i \in EIdx
    BY <2>3, HandledTarget DEF ExportInv
  <2>5. Exported(i, f)
    BY <2>2, <2>4, NLen DEF Exported, EIdx
  <2>6. QED
    BY <2>2, <2>3, <2>5 DEF ExportInv, HandledCopied, CopyOf
<1>4. QED
  BY <1>1, <1>2, <1>3, InitType, TypeCorrect, PTL DEF Spec, IssuedIsExported

=============================================================================
