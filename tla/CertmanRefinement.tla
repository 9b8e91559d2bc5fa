-------------------------- MODULE CertmanRefinement --------------------------
(***************************************************************************)
(* Certman implements CertStore: the refinement mapping is the identity on *)
(* today, live and output, and CertStore's Bindings are the <<name,       *)
(* primary domain>> pairs of the entries.  Every certbot step is an Issue *)
(* of the lineages it renews (or a stutter: a dry run, a no-op certonly), *)
(* every copy of export_entry a Publish, a passing day a Tick, and every  *)
(* other step, crashes included, leaves the three variables alone.        *)
(***************************************************************************)
EXTENDS CertmanProofs

\* Only a passing day moves the calendar: no command writes it.
LEMMA TodayOnlyByPassDay ==
    ASSUME [Next]_vars, ~PassDay
    PROVE  today' = today
<1>1. CASE InvokeNew
  BY <1>1 DEF InvokeNew, world
<1>2. CASE InvokeRenew
  BY <1>2 DEF InvokeRenew, world
<1>3. CASE InvokeExport
  BY <1>3 DEF InvokeExport, world
<1>4. CASE InvokeCheck
  BY <1>4 DEF InvokeCheck, CheckInvocation, world
<1>5. CASE ExportBadParameter
  BY <1>5 DEF ExportBadParameter, world
<1>6. CASE CheckNotFound
  BY <1>6 DEF CheckNotFound, world
<1>7. CASE ConfigValidate
  BY <1>7 DEF ConfigValidate, world
<1>8. CASE NewNotFound
  BY <1>8 DEF NewNotFound, world
<1>9. CASE NewUnsupportedProvider
  BY <1>9 DEF NewUnsupportedProvider, world
<1>10. CASE NewPrepareCredentials
  BY <1>10 DEF NewPrepareCredentials, world
<1>11. CASE NewCertbotSucceeds
  BY <1>11 DEF NewCertbotSucceeds, world
<1>12. CASE NewCertbotFails
  BY <1>12 DEF NewCertbotFails, world
<1>13. CASE RenewBadParameter
  BY <1>13 DEF RenewBadParameter, world
<1>14. CASE RenewPrepareAll
  BY <1>14 DEF RenewPrepareAll, world
<1>29. CASE RenewPrepareEntry
  BY <1>29 DEF RenewPrepareEntry
<1>15. CASE RenewNotFound
  BY <1>15 DEF RenewNotFound, world
<1>16. CASE RenewPrepareNamed
  BY <1>16 DEF RenewPrepareNamed, world
<1>17. CASE RenewCertbotSucceeds
  BY <1>17 DEF RenewCertbotSucceeds, world
<1>18. CASE RenewCertbotFails
  BY <1>18 DEF RenewCertbotFails, world
<1>19. CASE ExportCopy
  BY <1>19 DEF ExportCopy, world
<1>20. CASE ExportSkip
  BY <1>20 DEF ExportSkip, world
<1>21. CASE ExportDone
  BY <1>21 DEF ExportDone, world
<1>22. CASE FixNew
  BY <1>22 DEF FixNew, world
<1>23. CASE FixRenew
  BY <1>23 DEF FixRenew, world
<1>24. CASE CheckFinish
  BY <1>24 DEF CheckFinish, world
<1>25. CASE EditEnv
  BY <1>25 DEF EditEnv, world
<1>26. CASE Crash
  BY <1>26 DEF Crash, world
<1>27. CASE UNCHANGED vars
  BY <1>27 DEF vars, world
<1>28. QED
  BY <1>1, <1>2, <1>3, <1>4, <1>5, <1>6, <1>7, <1>8, <1>9, <1>10, <1>11, <1>12, <1>13, <1>14, <1>15, <1>16, <1>17, <1>18, <1>19, <1>20, <1>21, <1>22, <1>23, <1>24, <1>25, <1>26, <1>27, <1>29 DEF Next

\* The lineages a certbot renew names all exist in the live directory.
LEMMA RenewableDomains ==
    ASSUME TypeOK
    PROVE  Renewable \subseteq Domains
<1>1. act.target # 0 => Entries[act.target] \in EntryType
  BY EntryOK DEF TypeOK, ActFrame, EIdx
<1>2. QED
  BY <1>1 DEF Renewable, RenewScope, EntryType

\* One step of the commands is one step of CertStore, or a stutter of it.
LEMMA StepRefines ==
    ASSUME TypeOK, [Next]_vars
    PROVE  [Store!Next]_Store!storeVars
<1>1. CASE NewCertbotSucceeds
  <2> DEFINE d == Entries[act.target].domain
  <2>1. CASE CertonlyIssues(d) /\ d \in Domains
    <3>1. Store!Issue({d})
      BY <1>1, <2>1 DEF NewCertbotSucceeds, Store!Issue, Issued, TypeOK
    <3>2. QED
      BY <2>1, <3>1 DEF Store!Next
  <2>2. CASE ~(CertonlyIssues(d) /\ d \in Domains)
    BY <1>1, <2>2 DEF NewCertbotSucceeds, TypeOK, Store!storeVars
  <2>3. QED
    BY <2>1, <2>2
<1>2. CASE RenewCertbotSucceeds
  <2>1. CASE On(act.dryRun)
    BY <1>2, <2>1 DEF RenewCertbotSucceeds, Store!storeVars
  <2>2. CASE ~On(act.dryRun)
    <3>1. Store!Issue(Renewable)
      BY <1>2, <2>2 DEF RenewCertbotSucceeds, Store!Issue, Issued
    <3>2. QED
      BY <3>1, RenewableDomains DEF Store!Next
  <2>3. QED
    BY <2>1, <2>2
<1>3. CASE RenewCertbotFails
  <2>1. PICK r \in SUBSET {x \in Renewable : live[x].gen < MaxGen} :
          live' = IF On(act.dryRun) THEN live
                  ELSE [x \in Domains |-> IF x \in r THEN Issued(x) ELSE live[x]]
    BY <1>3 DEF RenewCertbotFails
  <2>2. CASE On(act.dryRun)
    BY <1>3, <2>1, <2>2 DEF RenewCertbotFails, Store!storeVars
  <2>3. CASE ~On(act.dryRun)
    <3>1. Store!Issue(r)
      BY <1>3, <2>1, <2>3 DEF RenewCertbotFails, Store!Issue, Issued
    <3>2. r \in SUBSET Domains
      BY <2>1, RenewableDomains
    <3>3. QED
      BY <3>1, <3>2 DEF Store!Next
  <2>4. QED
    BY <2>2, <2>3
<1>4. CASE ExportCopy
  <2> DEFINE e == Entries[exp.ei]
             f == ExportFiles[exp.fi]
  <2>1. exp.ei \in EIdx
    BY <1>4 DEF ExportCopy, TypeOK, ExpFrame, EIdx
  <2>2. <<e.name, e.domain>> \in Bindings
    BY <2>1 DEF Bindings
  <2>3. f \in Files
    BY DEF Files, TypeOK, ExpFrame
  <2>4. Store!Publish(e.name, e.domain, f)
    BY <1>4 DEF ExportCopy, Store!Publish, CopyOf
  <2>5. \E b \in Bindings, g \in Files : Store!Publish(b[1], b[2], g)
    BY <2>2, <2>3, <2>4
  <2>6. QED
    BY <2>5 DEF Store!Next
<1>5. CASE PassDay
  BY <1>5 DEF PassDay, Store!Next, Store!Tick, vars, world
<1>6. CASE ~NewCertbotSucceeds /\ ~RenewCertbotSucceeds /\ ~RenewCertbotFails
           /\ ~ExportCopy /\ ~PassDay
  BY <1>6, LiveOnlyByCertbot, OutputOnlyByCopy, TodayOnlyByPassDay DEF Store!storeVars
<1>7. QED
  BY <1>1, <1>2, <1>3, <1>4, <1>5, <1>6

(***************************************************************************)
(* RefinesStore for every configuration and every bound: whatever the     *)
(* commands, their failures and their kills do, live/ only gains next     *)
(* generations and output/<name> only receives the current certificate of *)
(* a domain some entry binds to that name (cli.py, exporter.py).          *)
(***************************************************************************)
THEOREM Refinement == Spec => RefinesStore
<1>1. Init => Store!Init
  BY DEF Init, Store!Init
<1>2. TypeOK /\ [Next]_vars => [Store!Next]_Store!storeVars
  BY StepRefines
<1>3. QED
  BY <1>1, <1>2, TypeCorrect, PTL DEF Spec, Store!Spec, RefinesStore

=============================================================================
