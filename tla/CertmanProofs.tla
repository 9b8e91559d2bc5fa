---------------------------- MODULE CertmanProofs ----------------------------
(***************************************************************************)
(* Proofs about the certman command line model (Certman.tla), for every   *)
(* configuration (every sequence of entries), every set of export files   *)
(* and every bound.                                                        *)
(*                                                                         *)
(* The loops of cli.py are modelled by "first index of a set" (FirstOf);  *)
(* that it exists for the sets the actions build rests on the             *)
(* well-foundedness of < on Nat.                                           *)
(***************************************************************************)
EXTENDS Certman, WellFoundedInduction, TLAPS

-----------------------------------------------------------------------------
(* Minimum and maximum of sets of naturals                                 *)

\* Every non-empty set of naturals has a least element.
LEMMA MinExists ==
    ASSUME NEW S \in SUBSET Nat, S # {}
    PROVE  \E m \in S : \A k \in S : m <= k
<1>1. PICK x \in S : \A y \in S : ~(<<y, x>> \in OpToRel(<, Nat))
  BY NatLessThanWellFounded, WFMin
<1>2. ASSUME NEW k \in S PROVE x <= k
  <2>1. ~(<<k, x>> \in OpToRel(<, Nat))
    BY <1>1
  <2>2. ~(k < x)
    BY <2>1 DEF OpToRel
  <2>3. QED
    BY <2>2, SMT
<1>3. QED
  BY <1>2

\* Every non-empty set of naturals bounded by b has a greatest element.
LEMMA MaxExists ==
    ASSUME NEW S \in SUBSET Nat, NEW b \in Nat, \A x \in S : x <= b, S # {}
    PROVE  \E m \in S : \A k \in S : k <= m
<1> DEFINE T == {b - x : x \in S}
<1>1. T \subseteq Nat
  BY SMT
<1>2. T # {}
  OBVIOUS
<1>3. PICK t \in T : \A u \in T : t <= u
  BY <1>1, <1>2, MinExists
<1>4. PICK m \in S : t = b - m
  OBVIOUS
<1>5. ASSUME NEW k \in S PROVE k <= m
  <2>1. b - k \in T
    OBVIOUS
  <2>2. t <= b - k
    BY <1>3, <2>1
  <2>3. QED
    BY <2>2, <1>4, SMT
<1>6. QED
  BY <1>5

-----------------------------------------------------------------------------
(* The loop helpers of the model                                           *)

USE CertmanAssumption, SecretsAssumption

LEMMA NLen == N \in Nat \ {0}
BY DEF N

\* FirstOf picks a member of a non-empty set of naturals, the least one.
LEMMA FirstOfType ==
    ASSUME NEW S \in SUBSET Nat, S # {}
    PROVE  FirstOf(S) \in S /\ \A j \in S : FirstOf(S) <= j
BY MinExists DEF FirstOf

\* The loops over entries (export targets, fix plan) stay within 1..N+1,
\* N+1 meaning "no further entry".
LEMMA NextTargetType ==
    ASSUME NEW n, NEW from \in Nat \ {0}
    PROVE  NextTarget(n, from) \in 1..N+1
<1> DEFINE S == {i \in from..N : n = NoName \/ Entries[i].name = n} \cup {N + 1}
<1>1. S \subseteq Nat /\ S # {}
  BY NLen
<1>2. FirstOf(S) \in S
  BY <1>1, FirstOfType
<1>3. S \subseteq 1..N+1
  BY NLen
<1>4. QED
  BY <1>2, <1>3 DEF NextTarget

LEMMA NextFixType ==
    ASSUME NEW status, NEW from \in Nat \ {0}
    PROVE  NextFix(status, from) \in 1..N+1
<1> DEFINE S == {i \in from..N : status[i] \in {"missing", "force-renew"}} \cup {N + 1}
<1>1. S \subseteq Nat /\ S # {}
  BY NLen
<1>2. FirstOf(S) \in S
  BY <1>1, FirstOfType
<1>3. S \subseteq 1..N+1
  BY NLen
<1>4. QED
  BY <1>2, <1>3 DEF NextFix

\* The exit code of check is one of the documented ones.
LEMMA WorstType ==
    ASSUME NEW status
    PROVE  Worst(status) \in {0, 10, 20, 30}
<1> DEFINE ws == {Weight(status[i]) : i \in EIdx} \cup {0}
<1>1. ws \subseteq {0, 10, 20, 30}
  BY DEF Weight
<1>2. \E m \in ws : \A k \in ws : k <= m
  <2>1. ws \subseteq Nat /\ ws # {} /\ \A x \in ws : x <= 30
    <3>1. \A x \in {0, 10, 20, 30} : x \in Nat /\ x <= 30
      BY SMT
    <3>2. QED
      BY <1>1, <3>1
  <2> HIDE DEF ws
  <2>2. QED
    BY <2>1, MaxExists, Zenon
<1>3. QED
  BY <1>1, <1>2 DEF Worst

\* Every configured entry is well-typed.
LEMMA EntryOK ==
    ASSUME NEW i \in EIdx
    PROVE  Entries[i] \in EntryType
BY DEF EIdx, N

\* The credential file of an entry is named after its account or its name.
LEMMA CredFileNameType ==
    ASSUME NEW e \in EntryType
    PROVE  CredFileName(e) \in CredFileNames
BY DEF CredFileName, CredFileNames, EntryType

\* A resolved credential pair is two lines of the .ini.
LEMMA CredValType ==
    ASSUME NEW e \in EntryType, NEW E, AliyunCredentialsForEntry(e, E).ok
    PROVE  AliyunCredentialsForEntry(e, E).val \in CredContent
<1>1. ASSUME NEW v \in CredVal PROVE ResolveValue(v, E).val \in ResolvedVal
  BY DEF ResolveValue, ResolvedVal, CredVal
<1>2. CASE Truthy(e.creds.id) /\ Truthy(e.creds.secret)
  <2>1. e.creds.id \in CredVal /\ e.creds.secret \in CredVal
    BY DEF EntryType, Credentials
  <2>2. QED
    BY <1>1, <1>2, <2>1 DEF AliyunCredentialsForEntry, CredContent
<1>3. CASE ~(Truthy(e.creds.id) /\ Truthy(e.creds.secret))
  <2>1. e.account \in Accounts
    BY <1>3 DEF AliyunCredentialsForEntry, EntryType
  <2>2. {<<"ALIYUN", e.account, "ACCESS_KEY_ID">>, <<"ALIYUN", e.account, "ACCESS_KEY_SECRET">>}
           \subseteq EnvKeys
    <3>1. {<<"ALIYUN", e.account, "ACCESS_KEY_ID">>, <<"ALIYUN", e.account, "ACCESS_KEY_SECRET">>}
             \subseteq AccountKeys("aliyun", e.account)
      BY DEF AccountKeys, ProviderPrefix, ProviderFields
    <3>2. AccountKeys("aliyun", e.account)
             \in {AccountKeys(p, a) : p \in KnownProviders, a \in Accounts}
      BY <2>1 DEF KnownProviders
    <3>3. AccountKeys("aliyun", e.account) \subseteq EnvKeys
      BY <3>2 DEF EnvKeys
    <3>4. QED
      BY <3>1, <3>3
  <2>3. QED
    BY <1>3, <2>2 DEF AliyunCredentialsForEntry, CredContent, ResolvedVal
<1>4. QED
  BY <1>2, <1>3

-----------------------------------------------------------------------------
(* Type correctness, one lemma per action                                  *)

LEMMA NoFramesType ==
    NoAct \in ActFrame /\ NoExp \in ExpFrame /\ NoChk \in ChkFrame
BY NLen DEF NoAct, NoExp, NoChk, ActFrame, ExpFrame, ChkFrame, Flag, Statuses,
           ExitCodes

\* Ending an invocation with an exit code resets every frame.
LEMMA FinishType ==
    ASSUME NEW code \in ExitCodes \cup {Killed}, Finish(code)
    PROVE  act' \in ActFrame /\ exp' \in ExpFrame /\ chk' \in ChkFrame /\
           exitCode' \in ExitCodes \cup {NoExit, Killed}
BY NoFramesType DEF Finish

LEMMA InitType == Init => TypeOK
BY NoFramesType, InitLiveAssumption DEF Init, TypeOK, Cert

LEMMA InvokeNewType == TypeOK /\ InvokeNew => TypeOK'
<1> SUFFICES ASSUME TypeOK, InvokeNew PROVE TypeOK'
  OBVIOUS
<1>1. PICK n \in Names, force \in BOOLEAN, ex \in BOOLEAN :
         act' = [NoAct EXCEPT !.cmd = "new", !.name = n, !.force = force,
                              !.export = ex]
  BY DEF InvokeNew
<1>2. act' \in ActFrame
  BY <1>1, NoFramesType DEF NoAct, ActFrame
<1>3. QED
  BY <1>2 DEF TypeOK, InvokeNew, world

LEMMA InvokeRenewType == TypeOK /\ InvokeRenew => TypeOK'
<1> SUFFICES ASSUME TypeOK, InvokeRenew PROVE TypeOK'
  OBVIOUS
<1>1. PICK all \in BOOLEAN, n \in Names \cup {NoName}, force \in BOOLEAN,
         dry \in BOOLEAN, ex \in BOOLEAN :
         act' = [NoAct EXCEPT !.cmd = "renew", !.all = all, !.name = n,
                              !.force = force, !.dryRun = dry, !.export = ex]
  BY DEF InvokeRenew
<1>2. dry \in Flag /\ n \in Names \cup {NoName}
  BY DEF Flag
<1>3. act' \in ActFrame
  BY <1>1, <1>2, NoFramesType DEF NoAct, ActFrame
<1>4. QED
  BY <1>3 DEF TypeOK, InvokeRenew, world

LEMMA ExportBadParameterType == TypeOK /\ ExportBadParameter => TypeOK'
BY FinishType DEF TypeOK, ExportBadParameter, world, ExitCodes

LEMMA CheckNotFoundType == TypeOK /\ CheckNotFound => TypeOK'
BY FinishType DEF TypeOK, CheckNotFound, world, ExitCodes

LEMMA ConfigValidateType == TypeOK /\ ConfigValidate => TypeOK'
BY FinishType DEF TypeOK, ConfigValidate, world, ExitCodes

LEMMA InvokeExportType == TypeOK /\ InvokeExport => TypeOK'
<1> SUFFICES ASSUME TypeOK, InvokeExport PROVE TypeOK'
  OBVIOUS
<1>1. PICK all \in BOOLEAN, n \in Names \cup {NoName}, ow \in BOOLEAN :
         exp' = ExportFrame(n, ow)
  BY DEF InvokeExport
<1>2. NextTarget(n, 1) \in 1..N+1
  BY NextTargetType
<1>3. exp' \in ExpFrame
  BY <1>1, <1>2 DEF ExportFrame, ExpFrame
<1>4. QED
  BY <1>3 DEF TypeOK, InvokeExport, world

LEMMA InvokeCheckType == TypeOK /\ InvokeCheck => TypeOK'
<1> SUFFICES ASSUME TypeOK, NEW n \in Names \cup {NoName}, NEW fix \in BOOLEAN,
                    CheckInvocation(n, fix)
             PROVE  TypeOK'
  BY DEF InvokeCheck
<1> DEFINE status == [i \in EIdx |-> IF i \in CheckTargets(n) THEN Status(i) ELSE "skip"]
<1>1. status \in [EIdx -> Statuses]
  BY DEF Status, Statuses
<1>2. Worst(status) \in ExitCodes
  BY WorstType DEF ExitCodes
<1>3. CASE fix
  <2>1. NextFix(status, 1) \in 1..N+1
    BY NextFixType
  <2>2. QED
    BY <1>1, <1>2, <1>3, <2>1 DEF CheckInvocation, TypeOK, ChkFrame, world
<1>4. CASE ~fix
  BY <1>2, <1>4, FinishType DEF CheckInvocation, TypeOK, world
<1>5. QED
  BY <1>3, <1>4

LEMMA NewNotFoundType == TypeOK /\ NewNotFound => TypeOK'
BY FinishType DEF TypeOK, NewNotFound, world, ExitCodes

LEMMA NewUnsupportedProviderType == TypeOK /\ NewUnsupportedProvider => TypeOK'
BY FinishType DEF TypeOK, NewUnsupportedProvider, world, ExitCodes

\* The first entry of a configured name is an entry.
LEMMA FirstNamedType ==
    ASSUME NEW n, Named(n) # {}
    PROVE  FirstOf(Named(n)) \in EIdx
<1>1. Named(n) \subseteq Nat
  BY NLen DEF Named, EIdx
<1>2. QED
  BY <1>1, FirstOfType DEF Named

LEMMA NewPrepareCredentialsType == TypeOK /\ NewPrepareCredentials => TypeOK'
<1> SUFFICES ASSUME TypeOK, NewPrepareCredentials PROVE TypeOK'
  OBVIOUS
<1> DEFINE ii == FirstOf(Named(act.name))
           ee == Entries[ii]
           cc == AliyunCredentialsForEntry(ee, env)
<1>1. ii \in EIdx /\ ee \in EntryType
  BY FirstNamedType, EntryOK DEF NewPrepareCredentials
<1>2. CASE cc.ok
  <2>1. cc.val \in CredContent /\ CredFileName(ee) \in CredFileNames
    BY <1>1, <1>2, CredValType, CredFileNameType
  <2>2. /\ act' = [act EXCEPT !.pc = "certbot", !.target = ii]
        /\ credFiles' = [credFiles EXCEPT ![CredFileName(ee)] = cc.val]
        /\ UNCHANGED <<chk, exp, exitCode, today, env, live, output>>
    BY <1>2, Zenon DEF NewPrepareCredentials
  <2>3. act' \in ActFrame
    <3>1. act \in ActFrame /\ ii \in 0..N
      BY <1>1, NLen DEF TypeOK, EIdx
    <3>2. QED
      BY <3>1, <2>2 DEF ActFrame
  <2>4. credFiles' \in [CredFileNames -> CredContent \cup {NoFile}]
    BY <2>1, <2>2 DEF TypeOK
  <2>5. QED
    BY <2>2, <2>3, <2>4 DEF TypeOK
<1>3. CASE ~cc.ok
  BY <1>3, FinishType DEF NewPrepareCredentials, TypeOK, ExitCodes
<1>4. QED
  BY <1>2, <1>3

\* certbot's failure exits 1 or 2.
LEMMA CertbotFailureType ==
    ASSUME CertbotFailure
    PROVE  act' \in ActFrame /\ exp' \in ExpFrame /\ chk' \in ChkFrame /\
           exitCode' \in ExitCodes \cup {NoExit, Killed}
BY FinishType DEF CertbotFailure, ExitCodes

\* A nested new or renew returns to check's fix loop or ends the command.
LEMMA CompleteActType ==
    ASSUME TypeOK, CompleteAct
    PROVE  act' \in ActFrame /\ exp' \in ExpFrame /\ chk' \in ChkFrame /\
           exitCode' \in ExitCodes \cup {NoExit, Killed}
<1>1. CASE chk.phase = "fix"
  <2>1. chk.ai + 1 \in Nat \ {0}
    BY DEF TypeOK, ChkFrame
  <2>2. NextFix(chk.status, chk.ai + 1) \in 1..N+1
    BY <2>1, NextFixType
  <2>3. QED
    BY <1>1, <2>2, NoFramesType DEF CompleteAct, TypeOK, ChkFrame
<1>2. CASE chk.phase # "fix"
  BY <1>2, FinishType DEF CompleteAct, ExitCodes
<1>3. QED
  BY <1>1, <1>2

\* The export new or renew starts over the entries of a name.
LEMMA ExportFrameType ==
    ASSUME NEW n \in Names \cup {NoName}, NEW ow \in BOOLEAN
    PROVE  ExportFrame(n, ow) \in ExpFrame
BY NextTargetType, NLen DEF ExportFrame, ExpFrame

\* A certificate issued below the generation bound is a certificate.
LEMMA IssuedType ==
    ASSUME TypeOK, NEW d \in Domains, live[d].gen < MaxGen
    PROVE  Issued(d) \in Cert
BY DEF TypeOK, Issued, Cert

\* What follows a successful certbot run: an export or the return.
LEMMA AfterCertbotType ==
    ASSUME TypeOK, NEW ex \in BOOLEAN, NEW n \in Names \cup {NoName},
           AfterCertbot(ex, n)
    PROVE  act' \in ActFrame /\ exp' \in ExpFrame /\ chk' \in ChkFrame /\
           exitCode' \in ExitCodes \cup {NoExit, Killed}
<1>1. CASE ex
  <2>1. ExportFrame(n, TRUE) \in ExpFrame
    BY ExportFrameType
  <2>2. act \in ActFrame
    BY DEF TypeOK
  <2>3. QED
    BY <1>1, <2>1, <2>2 DEF AfterCertbot, TypeOK, ActFrame
<1>2. CASE ~ex
  BY <1>2, CompleteActType DEF AfterCertbot
<1>3. QED
  BY <1>1, <1>2

LEMMA NewCertbotSucceedsType == TypeOK /\ NewCertbotSucceeds => TypeOK'
<1> SUFFICES ASSUME TypeOK, NewCertbotSucceeds PROVE TypeOK'
  OBVIOUS
<1> DEFINE d == Entries[act.target].domain
<1>1. live' \in [Domains -> Cert]
  <2>1. CASE CertonlyIssues(d) /\ d \in Domains
    BY <2>1, IssuedType DEF NewCertbotSucceeds, TypeOK
  <2>2. CASE CertonlyIssues(d) /\ d \notin Domains
    BY <2>2 DEF NewCertbotSucceeds, TypeOK
  <2>3. CASE ~CertonlyIssues(d)
    BY <2>3 DEF NewCertbotSucceeds, TypeOK
  <2>4. QED
    BY <2>1, <2>2, <2>3
<1>2. act' \in ActFrame /\ exp' \in ExpFrame /\ chk' \in ChkFrame /\
      exitCode' \in ExitCodes \cup {NoExit, Killed}
  <2>1. act.export \in BOOLEAN /\ act.name \in Names \cup {NoName}
    BY DEF TypeOK, ActFrame
  <2>2. QED
    BY <2>1, AfterCertbotType DEF NewCertbotSucceeds
<1>3. QED
  BY <1>1, <1>2 DEF NewCertbotSucceeds, TypeOK

LEMMA NewCertbotFailsType == TypeOK /\ NewCertbotFails => TypeOK'
BY CertbotFailureType DEF TypeOK, NewCertbotFails, world

LEMMA RenewBadParameterType == TypeOK /\ RenewBadParameter => TypeOK'
BY FinishType DEF TypeOK, RenewBadParameter, world, ExitCodes

LEMMA RenewNotFoundType == TypeOK /\ RenewNotFound => TypeOK'
BY FinishType DEF TypeOK, RenewNotFound, world, ExitCodes

\* One step of the credential loop of renew --all writes one resolved pair.
LEMMA RenewPrepareEntryType == TypeOK /\ RenewPrepareEntry => TypeOK'
<1> SUFFICES ASSUME TypeOK, RenewPrepareEntry PROVE TypeOK'
  OBVIOUS
<1> DEFINE ee == Entries[act.ci]
           cc == AliyunCredentialsForEntry(ee, env)
<1>1. act.ci \in EIdx /\ ee \in EntryType
  BY EntryOK DEF RenewPrepareEntry, TypeOK, ActFrame, EIdx
<1>2. CASE cc.ok
  <2>1. cc.val \in CredContent /\ CredFileName(ee) \in CredFileNames
    BY <1>1, <1>2, CredValType, CredFileNameType
  <2>2. /\ act' = [act EXCEPT !.ci = @ + 1]
        /\ credFiles' = [credFiles EXCEPT ![CredFileName(ee)] = cc.val]
        /\ UNCHANGED <<chk, exp, exitCode, today, env, live, output>>
    BY <1>2, Zenon DEF RenewPrepareEntry
  <2>3. act' \in ActFrame
    <3>1. act \in ActFrame /\ act.ci + 1 \in 1..N+1
      BY <1>1, NLen DEF TypeOK, EIdx
    <3>2. QED
      BY <3>1, <2>2 DEF ActFrame
  <2>4. credFiles' \in [CredFileNames -> CredContent \cup {NoFile}]
    BY <2>1, <2>2 DEF TypeOK
  <2>5. QED
    BY <2>2, <2>3, <2>4 DEF TypeOK
<1>3. CASE ~cc.ok
  BY <1>3, FinishType DEF RenewPrepareEntry, TypeOK, ExitCodes
<1>4. QED
  BY <1>2, <1>3

LEMMA RenewPrepareAllType == TypeOK /\ RenewPrepareAll => TypeOK'
<1> SUFFICES ASSUME TypeOK, RenewPrepareAll PROVE TypeOK'
  OBVIOUS
<1>1. act' = [act EXCEPT !.pc = "certbot", !.target = 0]
  BY DEF RenewPrepareAll
<1>2. act' \in ActFrame
  <2>1. act \in ActFrame /\ 0 \in 0..N
    BY NLen DEF TypeOK
  <2>2. QED
    BY <2>1, <1>1 DEF ActFrame
<1>3. QED
  BY <1>2 DEF RenewPrepareAll, TypeOK, world

LEMMA RenewPrepareNamedType == TypeOK /\ RenewPrepareNamed => TypeOK'
<1> SUFFICES ASSUME TypeOK, RenewPrepareNamed PROVE TypeOK'
  OBVIOUS
<1> DEFINE ii == FirstOf(Named(act.name))
           cc == AliyunCredentialsForEntry(Entries[ii], env)
<1>1. ii \in EIdx
  BY FirstNamedType DEF RenewPrepareNamed
<1>2. CASE cc.ok
  <2>1. cc.val \in CredContent /\ CredFileName(Entries[ii]) \in CredFileNames
    BY <1>1, <1>2, EntryOK, CredValType, CredFileNameType
  <2>2. /\ act' = [act EXCEPT !.pc = "certbot", !.target = ii]
        /\ credFiles' = [credFiles EXCEPT ![CredFileName(Entries[ii])] = cc.val]
        /\ UNCHANGED <<chk, exp, exitCode, today, env, live, output>>
    BY <1>2, Zenon DEF RenewPrepareNamed
  <2>3. act' \in ActFrame
    <3>1. act \in ActFrame /\ ii \in 0..N
      BY <1>1, NLen DEF TypeOK, EIdx
    <3>2. QED
      BY <3>1, <2>2 DEF ActFrame
  <2>4. credFiles' \in [CredFileNames -> CredContent \cup {NoFile}]
    BY <2>1, <2>2 DEF TypeOK
  <2>5. QED
    BY <2>2, <2>3, <2>4 DEF TypeOK
<1>3. CASE ~cc.ok
  BY <1>3, FinishType DEF RenewPrepareNamed, TypeOK, ExitCodes
<1>4. QED
  BY <1>2, <1>3

\* The export of --name n, or of everything, that renew starts.
LEMMA RenewExportNameType ==
    ASSUME TypeOK
    PROVE  /\ (IF act.name # NoName /\ ~act.all THEN act.name ELSE NoName)
                \in Names \cup {NoName}
           /\ (act.export /\ ~On(act.dryRun)) \in BOOLEAN
BY DEF TypeOK, ActFrame

LEMMA RenewCertbotSucceedsType == TypeOK /\ RenewCertbotSucceeds => TypeOK'
<1> SUFFICES ASSUME TypeOK, RenewCertbotSucceeds PROVE TypeOK'
  OBVIOUS
<1>1. live' \in [Domains -> Cert]
  <2>1. CASE On(act.dryRun)
    BY <2>1 DEF RenewCertbotSucceeds, TypeOK
  <2>2. CASE ~On(act.dryRun)
    <3>1. ASSUME NEW d \in Domains, d \in Renewable PROVE Issued(d) \in Cert
      BY <2>2, <3>1, IssuedType DEF RenewCertbotSucceeds
    <3>2. QED
      BY <2>2, <3>1 DEF RenewCertbotSucceeds, TypeOK
  <2>3. QED
    BY <2>1, <2>2
<1>2. act' \in ActFrame /\ exp' \in ExpFrame /\ chk' \in ChkFrame /\
      exitCode' \in ExitCodes \cup {NoExit, Killed}
  BY RenewExportNameType, AfterCertbotType DEF RenewCertbotSucceeds
<1>3. QED
  BY <1>1, <1>2 DEF RenewCertbotSucceeds, TypeOK

LEMMA RenewCertbotFailsType == TypeOK /\ RenewCertbotFails => TypeOK'
<1> SUFFICES ASSUME TypeOK, RenewCertbotFails PROVE TypeOK'
  OBVIOUS
<1>1. PICK r \in SUBSET {d \in Renewable : live[d].gen < MaxGen} :
         live' = IF On(act.dryRun) THEN live
                 ELSE [d \in Domains |-> IF d \in r THEN Issued(d) ELSE live[d]]
  BY DEF RenewCertbotFails
<1>2. ASSUME NEW d \in Domains, d \in r PROVE Issued(d) \in Cert
  BY <1>1, <1>2, IssuedType
<1>3. live' \in [Domains -> Cert]
  BY <1>1, <1>2 DEF TypeOK
<1>4. QED
  BY <1>3, CertbotFailureType DEF RenewCertbotFails, TypeOK

\* One step of the file loop of export_entry, and of the entry loop.
LEMMA NextFileType ==
    ASSUME TypeOK, exp.ei <= N
    PROVE  NextFile \in ExpFrame
<1>1. exp \in ExpFrame /\ Len(ExportFiles) \in Nat /\ DOMAIN ExportFiles = 1..Len(ExportFiles)
  BY DEF TypeOK
<1>2. CASE exp.fi < Len(ExportFiles)
  BY <1>1, <1>2 DEF NextFile, ExpFrame
<1>3. CASE ~(exp.fi < Len(ExportFiles))
  <2>1. exp.ei + 1 \in Nat \ {0}
    BY <1>1 DEF ExpFrame
  <2>2. NextTarget(exp.name, exp.ei + 1) \in 1..N+1
    BY <2>1, NextTargetType
  <2>3. 1 \in DOMAIN ExportFiles
    BY <1>1
  <2>4. NextFile = [exp EXCEPT !.ei = NextTarget(exp.name, exp.ei + 1), !.fi = 1]
    BY <1>3 DEF NextFile
  <2>5. QED
    BY <1>1, <2>2, <2>3, <2>4 DEF ExpFrame
<1>4. QED
  BY <1>2, <1>3

LEMMA ExportCopyType == TypeOK /\ ExportCopy => TypeOK'
<1> SUFFICES ASSUME TypeOK, ExportCopy PROVE TypeOK'
  OBVIOUS
<1> DEFINE e == Entries[exp.ei]
           f == ExportFiles[exp.fi]
<1>1. exp.ei \in EIdx /\ e \in EntryType
  BY EntryOK DEF ExportCopy, TypeOK, ExpFrame, EIdx
<1>2. f \in Files
  BY DEF Files, TypeOK, ExpFrame
<1>3. CopyOf(e.domain) \in Copy
  BY <1>1 DEF ExportCopy, CopyOf, Copy, TypeOK, Cert, EntryType
<1>4. output' \in [Names -> [Files -> Copy \cup {NoFile}]]
  BY <1>1, <1>2, <1>3 DEF ExportCopy, TypeOK, EntryType
<1>5. QED
  BY <1>4, NextFileType DEF ExportCopy, TypeOK

LEMMA ExportSkipType == TypeOK /\ ExportSkip => TypeOK'
BY NextFileType DEF ExportSkip, TypeOK, world

LEMMA ExportDoneType == TypeOK /\ ExportDone => TypeOK'
<1> SUFFICES ASSUME TypeOK, ExportDone PROVE TypeOK'
  OBVIOUS
<1>1. CASE act.cmd # "none"
  BY <1>1, CompleteActType DEF ExportDone, TypeOK, world
<1>2. CASE act.cmd = "none"
  BY <1>2, FinishType DEF ExportDone, TypeOK, world, ExitCodes
<1>3. QED
  BY <1>1, <1>2

LEMMA FixNewType == TypeOK /\ FixNew => TypeOK'
<1> SUFFICES ASSUME TypeOK, FixNew PROVE TypeOK'
  OBVIOUS
<1>1. Entries[chk.ai] \in EntryType
  BY EntryOK DEF FixNew, TypeOK, ChkFrame, EIdx
<1>2. act' \in ActFrame
  BY <1>1, NoFramesType DEF FixNew, NoAct, ActFrame, EntryType, Flag
<1>3. QED
  BY <1>2 DEF FixNew, TypeOK, world

LEMMA FixRenewType == TypeOK /\ FixRenew => TypeOK'
<1> SUFFICES ASSUME TypeOK, FixRenew PROVE TypeOK'
  OBVIOUS
<1>1. Entries[chk.ai] \in EntryType
  BY EntryOK DEF FixRenew, TypeOK, ChkFrame, EIdx
<1>2. act' \in ActFrame
  BY <1>1, NoFramesType DEF FixRenew, NoAct, ActFrame, EntryType, Flag
<1>3. QED
  BY <1>2 DEF FixRenew, TypeOK, world

LEMMA CheckFinishType == TypeOK /\ CheckFinish => TypeOK'
BY FinishType DEF CheckFinish, TypeOK, ChkFrame, world

LEMMA PassDayType == TypeOK /\ PassDay => TypeOK'
BY DEF PassDay, TypeOK, frames

LEMMA EditEnvType == TypeOK /\ EditEnv => TypeOK'
BY DEF EditEnv, TypeOK, frames

LEMMA CrashType == TypeOK /\ Crash => TypeOK'
BY FinishType DEF Crash, TypeOK, world

-----------------------------------------------------------------------------
(***************************************************************************)
(* Type correctness: every state certman can reach through any sequence  *)
(* of invocations, nested calls, crashes, days and edits of the           *)
(* environment has the shapes of TypeOK: in particular the export loop    *)
(* never runs past its file list or its entries, the fix loop past its    *)
(* plan, and every credential file holds a resolved pair.                 *)
(***************************************************************************)
LEMMA NextType == TypeOK /\ [Next]_vars => TypeOK'
<1> SUFFICES ASSUME TypeOK, [Next]_vars PROVE TypeOK'
  OBVIOUS
<1>1. CASE InvokeNew
  BY <1>1, InvokeNewType
<1>2. CASE InvokeRenew
  BY <1>2, InvokeRenewType
<1>3. CASE InvokeExport
  BY <1>3, InvokeExportType
<1>4. CASE InvokeCheck
  BY <1>4, InvokeCheckType
<1>5. CASE ExportBadParameter
  BY <1>5, ExportBadParameterType
<1>6. CASE CheckNotFound
  BY <1>6, CheckNotFoundType
<1>7. CASE ConfigValidate
  BY <1>7, ConfigValidateType
<1>8. CASE NewNotFound
  BY <1>8, NewNotFoundType
<1>9. CASE NewUnsupportedProvider
  BY <1>9, NewUnsupportedProviderType
<1>10. CASE NewPrepareCredentials
  BY <1>10, NewPrepareCredentialsType
<1>11. CASE NewCertbotSucceeds
  BY <1>11, NewCertbotSucceedsType
<1>12. CASE NewCertbotFails
  BY <1>12, NewCertbotFailsType
<1>13. CASE RenewBadParameter
  BY <1>13, RenewBadParameterType
<1>14. CASE RenewPrepareAll
  BY <1>14, RenewPrepareAllType
<1>30. CASE RenewPrepareEntry
  BY <1>30, RenewPrepareEntryType
<1>15. CASE RenewNotFound
  BY <1>15, RenewNotFoundType
<1>16. CASE RenewPrepareNamed
  BY <1>16, RenewPrepareNamedType
<1>17. CASE RenewCertbotSucceeds
  BY <1>17, RenewCertbotSucceedsType
<1>18. CASE RenewCertbotFails
  BY <1>18, RenewCertbotFailsType
<1>19. CASE ExportCopy
  BY <1>19, ExportCopyType
<1>20. CASE ExportSkip
  BY <1>20, ExportSkipType
<1>21. CASE ExportDone
  BY <1>21, ExportDoneType
<1>22. CASE FixNew
  BY <1>22, FixNewType
<1>23. CASE FixRenew
  BY <1>23, FixRenewType
<1>24. CASE CheckFinish
  BY <1>24, CheckFinishType
<1>25. CASE PassDay
  BY <1>25, PassDayType
<1>26. CASE EditEnv
  BY <1>26, EditEnvType
<1>27. CASE Crash
  BY <1>27, CrashType
<1>28. CASE UNCHANGED vars
  BY <1>28 DEF TypeOK, vars, world, frames
<1>29. QED
  BY <1>1, <1>2, <1>3, <1>4, <1>5, <1>6, <1>7, <1>8, <1>9, <1>10, <1>11,
     <1>12, <1>13, <1>14, <1>15, <1>16, <1>17, <1>18, <1>19, <1>20, <1>21,
     <1>22, <1>23, <1>24, <1>25, <1>26, <1>27, <1>28, <1>30 DEF Next

THEOREM TypeCorrect == Spec => []TypeOK
BY InitType, NextType, PTL DEF Spec

-----------------------------------------------------------------------------
(* Frame lemmas: which steps write output/ and the live directory          *)

\* Only the copy step of export writes into output/.
LEMMA OutputOnlyByCopy ==
    ASSUME [Next]_vars, ~ExportCopy
    PROVE  output' = output
<1>1. CASE InvokeNew
  BY <1>1 DEF InvokeNew, world
<1>2. CASE InvokeRenew
  BY <1>2 DEF InvokeRenew, world
<1>3. CASE InvokeExport
  BY <1>3 DEF InvokeExport, world
<1>4. CASE InvokeCheck
  BY <1>4 DEF InvokeCheck, CheckInvocation, world
<1>5. CASE ExportBadParameter
  BY <1>5 DEF ExportBadParameter, world
<1>6. CASE CheckNotFound
  BY <1>6 DEF CheckNotFound, world
<1>7. CASE ConfigValidate
  BY <1>7 DEF ConfigValidate, world
<1>8. CASE NewNotFound
  BY <1>8 DEF NewNotFound, world
<1>9. CASE NewUnsupportedProvider
  BY <1>9 DEF NewUnsupportedProvider, world
<1>10. CASE NewPrepareCredentials
  BY <1>10 DEF NewPrepareCredentials
<1>11. CASE NewCertbotSucceeds
  BY <1>11 DEF NewCertbotSucceeds
<1>12. CASE NewCertbotFails
  BY <1>12 DEF NewCertbotFails, world
<1>13. CASE RenewBadParameter
  BY <1>13 DEF RenewBadParameter, world
<1>14. CASE RenewPrepareAll
  BY <1>14 DEF RenewPrepareAll, world
<1>30. CASE RenewPrepareEntry
  BY <1>30 DEF RenewPrepareEntry
<1>15. CASE RenewNotFound
  BY <1>15 DEF RenewNotFound, world
<1>16. CASE RenewPrepareNamed
  BY <1>16 DEF RenewPrepareNamed
<1>17. CASE RenewCertbotSucceeds
  BY <1>17 DEF RenewCertbotSucceeds
<1>18. CASE RenewCertbotFails
  BY <1>18 DEF RenewCertbotFails
<1>19. CASE ExportSkip
  BY <1>19 DEF ExportSkip, world
<1>20. CASE ExportDone
  BY <1>20 DEF ExportDone, world
<1>21. CASE FixNew
  BY <1>21 DEF FixNew, world
<1>22. CASE FixRenew
  BY <1>22 DEF FixRenew, world
<1>23. CASE CheckFinish
  BY <1>23 DEF CheckFinish, world
<1>24. CASE PassDay
  BY <1>24 DEF PassDay
<1>25. CASE EditEnv
  BY <1>25 DEF EditEnv
<1>26. CASE Crash
  BY <1>26 DEF Crash, world
<1>27. CASE UNCHANGED vars
  BY <1>27 DEF vars, world
<1>28. QED
  BY <1>1, <1>2, <1>3, <1>4, <1>5, <1>6, <1>7, <1>8, <1>9, <1>10, <1>11,
     <1>12, <1>13, <1>14, <1>15, <1>16, <1>17, <1>18, <1>19, <1>20, <1>21,
     <1>22, <1>23, <1>24, <1>25, <1>26, <1>27, <1>30 DEF Next

\* Only a successful or failing certbot run changes the live directory.
LEMMA LiveOnlyByCertbot ==
    ASSUME [Next]_vars, ~NewCertbotSucceeds, ~RenewCertbotSucceeds, ~RenewCertbotFails
    PROVE  live' = live
<1>1. CASE InvokeNew
  BY <1>1 DEF InvokeNew, world
<1>2. CASE InvokeRenew
  BY <1>2 DEF InvokeRenew, world
<1>3. CASE InvokeExport
  BY <1>3 DEF InvokeExport, world
<1>4. CASE InvokeCheck
  BY <1>4 DEF InvokeCheck, CheckInvocation, world
<1>5. CASE ExportBadParameter
  BY <1>5 DEF ExportBadParameter, world
<1>6. CASE CheckNotFound
  BY <1>6 DEF CheckNotFound, world
<1>7. CASE ConfigValidate
  BY <1>7 DEF ConfigValidate, world
<1>8. CASE NewNotFound
  BY <1>8 DEF NewNotFound, world
<1>9. CASE NewUnsupportedProvider
  BY <1>9 DEF NewUnsupportedProvider, world
<1>10. CASE NewPrepareCredentials
  BY <1>10 DEF NewPrepareCredentials, world
<1>11. CASE NewCertbotFails
  BY <1>11 DEF NewCertbotFails, world
<1>12. CASE RenewBadParameter
  BY <1>12 DEF RenewBadParameter, world
<1>13. CASE RenewPrepareAll
  BY <1>13 DEF RenewPrepareAll, world
<1>30. CASE RenewPrepareEntry
  BY <1>30 DEF RenewPrepareEntry
<1>14. CASE RenewNotFound
  BY <1>14 DEF RenewNotFound, world
<1>15. CASE RenewPrepareNamed
  BY <1>15 DEF RenewPrepareNamed, world
<1>16. CASE ExportCopy
  BY <1>16 DEF ExportCopy, world
<1>17. CASE ExportSkip
  BY <1>17 DEF ExportSkip, world
<1>18. CASE ExportDone
  BY <1>18 DEF ExportDone, world
<1>19. CASE FixNew
  BY <1>19 DEF FixNew, world
<1>20. CASE FixRenew
  BY <1>20 DEF FixRenew, world
<1>21. CASE CheckFinish
  BY <1>21 DEF CheckFinish, world
<1>22. CASE PassDay
  BY <1>22 DEF PassDay, world
<1>23. CASE EditEnv
  BY <1>23 DEF EditEnv, world
<1>24. CASE Crash
  BY <1>24 DEF Crash, world
<1>25. CASE UNCHANGED vars
  BY <1>25 DEF vars, world
<1>26. QED
  BY <1>1, <1>2, <1>3, <1>4, <1>5, <1>6, <1>7, <1>8, <1>9, <1>10, <1>11,
     <1>12, <1>13, <1>14, <1>15, <1>16, <1>17, <1>18, <1>19, <1>20, <1>21,
     <1>22, <1>23, <1>24, <1>25, <1>30 DEF Next

\* certbot only ever adds a generation to a lineage.
LEMMA LiveGrows ==
    ASSUME TypeOK, [Next]_vars
    PROVE  \A d \in Domains : live[d].gen <= live'[d].gen
<1> SUFFICES ASSUME NEW d \in Domains PROVE live[d].gen <= live'[d].gen
  OBVIOUS
<1>0. live[d] \in Cert
  BY DEF TypeOK
<1>1. CASE NewCertbotSucceeds
  <2> DEFINE t == Entries[act.target].domain
  <2>1. CASE CertonlyIssues(t) /\ d = t
    BY <1>0, <1>1, <2>1 DEF NewCertbotSucceeds, TypeOK, Issued, Cert
  <2>2. CASE CertonlyIssues(t) /\ d # t
    BY <1>0, <1>1, <2>2 DEF NewCertbotSucceeds, TypeOK, Cert
  <2>3. CASE ~CertonlyIssues(t)
    BY <1>0, <1>1, <2>3 DEF NewCertbotSucceeds, Cert
  <2>4. QED
    BY <2>1, <2>2, <2>3
<1>2. CASE RenewCertbotSucceeds
  BY <1>0, <1>2 DEF RenewCertbotSucceeds, Issued, Cert
<1>3. CASE RenewCertbotFails
  <2>1. PICK r \in SUBSET {x \in Renewable : live[x].gen < MaxGen} :
           live' = IF On(act.dryRun) THEN live
                   ELSE [x \in Domains |-> IF x \in r THEN Issued(x) ELSE live[x]]
    BY <1>3 DEF RenewCertbotFails
  <2>2. QED
    BY <1>0, <2>1 DEF Issued, Cert
<1>4. CASE ~NewCertbotSucceeds /\ ~RenewCertbotSucceeds /\ ~RenewCertbotFails
  <2>1. live' = live
    BY <1>4, LiveOnlyByCertbot
  <2>2. QED
    BY <1>0, <2>1 DEF Cert
<1>5. QED
  BY <1>1, <1>2, <1>3, <1>4

=============================================================================
