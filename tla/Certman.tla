------------------------------ MODULE Certman ------------------------------
(***************************************************************************)
(* The certman command line (cli.py) over the state it leaves on disk:    *)
(* the certbot live directory per primary domain, the exported output     *)
(* per entry name and the aliyun credential files, together with the      *)
(* process environment and the calendar.                                   *)
(*                                                                         *)
(* One invocation runs at a time.  A command that calls another (check    *)
(* --fix calls new or renew, which call export) keeps one frame per        *)
(* level: chk for check, act for new/renew, exp for export.  Every step   *)
(* that writes to disk is a step of its own, so that a kill of the        *)
(* process (Crash) can fall between any two of them.                       *)
(***************************************************************************)
EXTENDS Integers, Sequences, FiniteSets, CertmanSecrets

CONSTANTS
    Entries,         \* the merged config entries, in config order
    Names,           \* values given to --name (configured or not)
    Domains,         \* primary domains
    ExportFiles,     \* exporter._EXPORT_FILES
    Validity,        \* lifetime of an issued certificate, in days
    RenewBefore,     \* certbot renews a lineage this many days before expiry
    WarnDays,        \* check --warn-days
    ForceRenewDays,  \* check --force-renew-days
    MaxDay,          \* bound on the calendar
    MaxGen,          \* bound on the certificates issued per domain
    InitLive,        \* the certbot live directory when the model starts
    NoName, NoFile, NoExit, Killed,
    OptionInfo       \* a typer.Option default left in place by a direct call

EntryType ==
    [name : Names, domain : Domains, provider : STRING,
     account : Accounts \cup {NoAccount}, creds : Credentials]

ASSUME CertmanAssumption ==
    /\ Entries \in Seq(EntryType)
    /\ Len(Entries) > 0
    /\ ExportFiles \in Seq(STRING) /\ Len(ExportFiles) > 0
    /\ {Validity, RenewBefore, WarnDays, ForceRenewDays, MaxDay, MaxGen} \subseteq Nat
    /\ NoName \notin Names

\* certbot's state when the model starts: lineages from earlier runs
ASSUME InitLiveAssumption == InitLive \in [Domains -> [gen : 0..MaxGen, notAfter : Nat]]

N == Len(Entries)
EIdx == 1..N
Files == {ExportFiles[k] : k \in DOMAIN ExportFiles}
CredFileNames == Accounts \cup Names
Flag == BOOLEAN \cup {OptionInfo}
ExitCodes == {0, 1, 2, 10, 20, 30}

\* Python truthiness of a flag; a typer.OptionInfo object is truthy.
On(v) == v = TRUE \/ v = OptionInfo

\* the variables any code path can read for this config: the ${...}
\* references, each entry's account keys for its provider, and the aliyun
\* keys, which renew reads for every entry whatever its provider
ConfigEnvKeys ==
    RefKeys \cup
    UNION {AccountKeys("aliyun", Entries[i].account) \cup
           AccountKeys(Entries[i].provider, Entries[i].account) :
              i \in {j \in EIdx : Entries[j].account # NoAccount}}

Copy == [domain : Domains, gen : 1..MaxGen]
Cert == [gen : 0..MaxGen, notAfter : Nat]
Statuses == {"missing", "force-renew", "warn", "ok", "skip"}

VARIABLES
    today,      \* the current day
    env,        \* environment variables set and non-empty
    live,       \* certbot live/<domain>: generation (0 = none) and expiry
    output,     \* output/<name>/<file>: the certificate it was copied from
    credFiles,  \* run/credentials/aliyun_<name>.ini contents
    chk,        \* frame of a running check
    act,        \* frame of a running new or renew
    exp,        \* frame of a running export
    exitCode    \* exit status of the last invocation (NoExit while running)

world == <<today, env, live, output, credFiles>>
frames == <<chk, act, exp>>
vars == <<world, frames, exitCode>>

NoAct == [cmd |-> "none", pc |-> "start", name |-> NoName, all |-> FALSE,
          force |-> FALSE, dryRun |-> FALSE, export |-> FALSE,
          verbose |-> FALSE, target |-> 0, ci |-> 1]
NoExp == [active |-> FALSE, name |-> NoName, overwrite |-> FALSE,
          ei |-> 1, fi |-> 1]
NoChk == [phase |-> "idle", status |-> [i \in EIdx |-> "skip"],
          worst |-> 0, ai |-> 1]

ActFrame ==
    [cmd : {"none", "new", "renew"}, pc : {"start", "certbot", "export"},
     name : Names \cup {NoName}, all : BOOLEAN, force : BOOLEAN,
     dryRun : Flag, export : BOOLEAN, verbose : Flag, target : 0..N,
     ci : 1..N+1]

ExpFrame ==
    [active : BOOLEAN, name : Names \cup {NoName}, overwrite : BOOLEAN,
     ei : 1..N+1, fi : DOMAIN ExportFiles]

ChkFrame ==
    [phase : {"idle", "fix"}, status : [EIdx -> Statuses],
     worst : ExitCodes, ai : 1..N+1]

TypeOK ==
    /\ today \in 0..MaxDay
    /\ env \subseteq ConfigEnvKeys
    /\ live \in [Domains -> Cert]
    /\ output \in [Names -> [Files -> Copy \cup {NoFile}]]
    /\ credFiles \in [CredFileNames -> CredContent \cup {NoFile}]
    /\ act \in ActFrame
    /\ exp \in ExpFrame
    /\ chk \in ChkFrame
    /\ exitCode \in ExitCodes \cup {NoExit, Killed}

-----------------------------------------------------------------------------
(* Helpers                                                                 *)

\* [e for e in runtime.config.entries if e.name == name]
Named(n) == {i \in EIdx : Entries[i].name = n}

FirstOf(S) == CHOOSE i \in S : \A j \in S : i <= j

\* the next entry export visits: its targets are the entries named n, or
\* all entries when no name is given (cli.py 335-339)
NextTarget(n, from) ==
    FirstOf({i \in from..N : n = NoName \/ Entries[i].name = n} \cup {N + 1})

ExportFrame(n, overwrite) ==
    [active |-> TRUE, name |-> n, overwrite |-> overwrite,
     ei |-> NextTarget(n, 1), fi |-> 1]

CopyOf(d) == [domain |-> d, gen |-> live[d].gen]

DaysLeft(d) == live[d].notAfter - today

\* certbot's own renewal window (renew_before_expiry)
Due(d) == DaysLeft(d) <= RenewBefore

Issued(d) == [gen |-> live[d].gen + 1, notAfter |-> today + Validity]

\* a strict comparison with force_renew_days
StatusStrictForce(i) ==
    LET d == Entries[i].domain IN
    IF live[d].gen = 0 THEN "missing"
    ELSE IF DaysLeft(d) < ForceRenewDays THEN "force-renew"
    ELSE IF DaysLeft(d) <= WarnDays THEN "warn"
    ELSE "ok"

\* the classification loop of check (cli.py 403-439)
Status(i) ==
    LET d == Entries[i].domain IN
    IF live[d].gen = 0 THEN "missing"
    ELSE IF DaysLeft(d) <= ForceRenewDays THEN "force-renew"
    ELSE IF DaysLeft(d) <= WarnDays THEN "warn"
    ELSE "ok"

Weight(s) ==
    CASE s = "missing" -> 30 [] s = "force-renew" -> 20
      [] s = "warn" -> 10    [] OTHER -> 0

Worst(status) ==
    LET ws == {Weight(status[i]) : i \in EIdx} \cup {0}
    IN  CHOOSE w \in ws : \A v \in ws : v <= w

\* a plan that leaves out the missing certificates
NextFixRenewOnly(status, from) ==
    FirstOf({i \in from..N : status[i] = "force-renew"} \cup {N + 1})

\* the fix plan: missing -> new, force-renew -> renew, in results order
NextFix(status, from) ==
    FirstOf({i \in from..N : status[i] \in {"missing", "force-renew"}} \cup {N + 1})

-----------------------------------------------------------------------------
(* Ending an invocation or a nested call                                   *)

\* the invocation ends: normally (typer.Exit) or by an exception that
\* propagates through every frame (BadParameter -> 2, ValueError -> 1)
Finish(code) ==
    /\ chk' = NoChk /\ act' = NoAct /\ exp' = NoExp
    /\ exitCode' = code

\* new or renew returns to its caller: the fix loop of check moves to its
\* next planned action; a top-level command exits 0
CompleteAct ==
    IF chk.phase = "fix"
    THEN /\ chk' = [chk EXCEPT !.ai = NextFix(chk.status, chk.ai + 1)]
         /\ act' = NoAct /\ exp' = NoExp
         /\ UNCHANGED exitCode
    ELSE Finish(0)

Idle == chk.phase = "idle" /\ act.cmd = "none" /\ ~exp.active

-----------------------------------------------------------------------------
(* Invocations: typer parses the options and runs one command.  Every     *)
(* invocation first runs create_runtime (a fresh env snapshot).            *)

\* new --name n [--force] [--export/--no-export].  --verbose only streams
\* certbot's output (and so hides the administrator hint): command-line
\* runs are taken without it; the calls of check --fix pass OptionInfo.
InvokeNew ==
    /\ Idle
    /\ \E n \in Names, force, ex \in BOOLEAN :
          act' = [NoAct EXCEPT !.cmd = "new", !.name = n, !.force = force,
                               !.export = ex]
    /\ exitCode' = NoExit
    /\ UNCHANGED <<world, chk, exp>>

\* renew [--all | --name n] [--force] [--dry-run] [--export/--no-export].
\* With --all a --name is never read (cli.py 266, 315), so it is left out.
InvokeRenew ==
    /\ Idle
    /\ \E all \in BOOLEAN, n \in Names \cup {NoName}, force, dry, ex \in BOOLEAN :
          /\ all => n = NoName
          /\ act' = [NoAct EXCEPT !.cmd = "renew", !.all = all, !.name = n,
                                  !.force = force, !.dryRun = dry, !.export = ex]
    /\ exitCode' = NoExit
    /\ UNCHANGED <<world, chk, exp>>

\* export [--all] [--name n] [--overwrite/--no-overwrite]: the argument
\* checks raise BadParameter (exit 2) before anything is written
ExportBadParameter ==
    /\ Idle
    /\ \E all \in BOOLEAN, n \in Names \cup {NoName} :
          \/ ~all /\ n = NoName
          \/ n # NoName /\ Named(n) = {}
    /\ Finish(2)
    /\ UNCHANGED world

InvokeExport ==
    /\ Idle
    /\ \E all \in BOOLEAN, n \in Names \cup {NoName}, ow \in BOOLEAN :
          /\ all \/ n # NoName
          /\ n # NoName => Named(n) # {}
          /\ exp' = ExportFrame(n, ow)
    /\ exitCode' = NoExit
    /\ UNCHANGED <<world, chk, act>>

\* check [--name n] [--fix]: classify every target (cli.py 392-439); without
\* --fix exit with the worst code, with --fix start the planned actions
CheckNotFound ==
    /\ Idle
    /\ \E n \in Names : Named(n) = {}
    /\ Finish(2)
    /\ UNCHANGED world

CheckTargets(n) == IF n = NoName THEN EIdx ELSE Named(n)

CheckInvocation(n, fix) ==
    LET status == [i \in EIdx |-> IF i \in CheckTargets(n) THEN Status(i) ELSE "skip"]
    IN  /\ Idle
        /\ CheckTargets(n) # {}
        /\ IF fix
           THEN /\ chk' = [phase |-> "fix", status |-> status,
                           worst |-> Worst(status), ai |-> NextFix(status, 1)]
                /\ exitCode' = NoExit
                /\ UNCHANGED <<act, exp>>
           ELSE Finish(Worst(status))
        /\ UNCHANGED world

InvokeCheck == \E n \in Names \cup {NoName}, fix \in BOOLEAN : CheckInvocation(n, fix)

\* config-validate: validate_required_secrets raises ValueError (exit 1)
\* on missing keys or an unsupported provider
ConfigValidate ==
    /\ Idle
    /\ Finish(IF ValidateOK(Entries, env) THEN 0 ELSE 1)
    /\ UNCHANGED world

-----------------------------------------------------------------------------
(* new (cli.py 105-217)                                                    *)

NewNotFound ==
    /\ act.cmd = "new" /\ act.pc = "start"
    /\ Named(act.name) = {}
    /\ Finish(2)
    /\ UNCHANGED world

NewUnsupportedProvider ==
    /\ act.cmd = "new" /\ act.pc = "start"
    /\ Named(act.name) # {}
    /\ Entries[FirstOf(Named(act.name))].provider # "aliyun"
    /\ Finish(2)
    /\ UNCHANGED world

\* _prepare_aliyun_credentials_ini: resolve, then write the .ini
NewPrepareCredentials ==
    /\ act.cmd = "new" /\ act.pc = "start"
    /\ Named(act.name) # {}
    /\ LET i == FirstOf(Named(act.name))
           e == Entries[i]
           c == AliyunCredentialsForEntry(e, env)
       IN  /\ e.provider = "aliyun"
           /\ IF c.ok
              THEN /\ credFiles' = [credFiles EXCEPT ![CredFileName(e)] = c.val]
                   /\ act' = [act EXCEPT !.pc = "certbot", !.target = i]
                   /\ UNCHANGED <<chk, exp, exitCode>>
              ELSE /\ Finish(1)
                   /\ UNCHANGED credFiles
    /\ UNCHANGED <<today, env, live, output>>

\* certbot failure: exit 2 when stderr mentions administrator rights
\* (only visible when output is captured, i.e. not --verbose), else 1
CertbotFailure ==
    \E code \in IF On(act.verbose) THEN {1} ELSE {1, 2} : Finish(code)

\* after certbot succeeded: export into output/<n> (overwrite=True) if
\* asked, then return; the export step returns for the command
AfterCertbot(exportNow, n) ==
    IF exportNow
    THEN /\ exp' = ExportFrame(n, TRUE)
         /\ act' = [act EXCEPT !.pc = "export"]
         /\ UNCHANGED <<chk, exitCode>>
    ELSE CompleteAct

\* certbot certonly issues when there is no lineage, when --force-renewal
\* is given or when the lineage is due; otherwise it is a successful no-op
CertonlyIssues(d) == live[d].gen = 0 \/ act.force \/ Due(d)

NewCertbotSucceeds ==
    /\ act.cmd = "new" /\ act.pc = "certbot"
    /\ LET d == Entries[act.target].domain
       IN  /\ CertonlyIssues(d) => live[d].gen < MaxGen
           /\ live' = IF CertonlyIssues(d) THEN [live EXCEPT ![d] = Issued(d)] ELSE live
    /\ AfterCertbot(act.export, act.name)
    /\ UNCHANGED <<today, env, output, credFiles>>

NewCertbotFails ==
    /\ act.cmd = "new" /\ act.pc = "certbot"
    /\ CertbotFailure
    /\ UNCHANGED world

-----------------------------------------------------------------------------
(* renew (cli.py 220-318)                                                  *)

RenewBadParameter ==
    /\ act.cmd = "renew" /\ act.pc = "start"
    /\ ~act.all /\ act.name = NoName
    /\ Finish(2)
    /\ UNCHANGED world

\* --all: _prepare_aliyun_credentials_ini for every entry in config order,
\* whatever its provider, one file per step (act.ci is the loop index); an
\* entry that does not resolve raises after the earlier files were written
RenewPrepareEntry ==
    /\ act.cmd = "renew" /\ act.pc = "start"
    /\ act.all /\ act.ci <= N
    /\ LET e == Entries[act.ci]
           c == AliyunCredentialsForEntry(e, env)
       IN  IF c.ok
           THEN /\ credFiles' = [credFiles EXCEPT ![CredFileName(e)] = c.val]
                /\ act' = [act EXCEPT !.ci = @ + 1]
                /\ UNCHANGED <<chk, exp, exitCode>>
           ELSE /\ Finish(1)
                /\ UNCHANGED credFiles
    /\ UNCHANGED <<today, env, live, output>>

\* every entry prepared: certbot renew without --cert-name
RenewPrepareAll ==
    /\ act.cmd = "renew" /\ act.pc = "start"
    /\ act.all /\ act.ci = N + 1
    /\ act' = [act EXCEPT !.pc = "certbot", !.target = 0]
    /\ UNCHANGED <<world, chk, exp, exitCode>>

RenewNotFound ==
    /\ act.cmd = "renew" /\ act.pc = "start"
    /\ ~act.all /\ act.name # NoName
    /\ Named(act.name) = {}
    /\ Finish(2)
    /\ UNCHANGED world

\* --name: credentials for the first entry of that name, --cert-name its
\* primary domain
RenewPrepareNamed ==
    /\ act.cmd = "renew" /\ act.pc = "start"
    /\ ~act.all /\ act.name # NoName
    /\ Named(act.name) # {}
    /\ LET i == FirstOf(Named(act.name))
           c == AliyunCredentialsForEntry(Entries[i], env)
       IN  IF c.ok
           THEN /\ credFiles' = [credFiles EXCEPT ![CredFileName(Entries[i])] = c.val]
                /\ act' = [act EXCEPT !.pc = "certbot", !.target = i]
                /\ UNCHANGED <<chk, exp, exitCode>>
           ELSE /\ Finish(1)
                /\ UNCHANGED credFiles
    /\ UNCHANGED <<today, env, live, output>>

\* the lineages certbot renew looks at: the one of --cert-name, or all;
\* a --cert-name without a lineage is an error and renews nothing
RenewScope ==
    {d \in Domains : live[d].gen > 0 /\ (act.target = 0 \/ d = Entries[act.target].domain)}

\* certbot renew: a lineage in scope is renewed when forced or due; with
\* --dry-run nothing is saved.  On success, export follows unless dry-run.
Renewable == {d \in RenewScope : act.force \/ Due(d)}

RenewCertbotSucceeds ==
    /\ act.cmd = "renew" /\ act.pc = "certbot"
    /\ act.target # 0 => live[Entries[act.target].domain].gen > 0
    /\ ~On(act.dryRun) => \A d \in Renewable : live[d].gen < MaxGen
    /\ live' = IF On(act.dryRun) THEN live
               ELSE [d \in Domains |-> IF d \in Renewable THEN Issued(d) ELSE live[d]]
    /\ AfterCertbot(act.export /\ ~On(act.dryRun),
                    IF act.name # NoName /\ ~act.all THEN act.name ELSE NoName)
    /\ UNCHANGED <<today, env, output, credFiles>>

\* a failing run (a missing lineage for --cert-name included) may have
\* renewed some of its lineages before it failed
RenewCertbotFails ==
    /\ act.cmd = "renew" /\ act.pc = "certbot"
    /\ \E r \in SUBSET {d \in Renewable : live[d].gen < MaxGen} :
          live' = IF On(act.dryRun) THEN live
                  ELSE [d \in Domains |-> IF d \in r THEN Issued(d) ELSE live[d]]
    /\ CertbotFailure
    /\ UNCHANGED <<today, env, output, credFiles>>

-----------------------------------------------------------------------------
(* export (cli.py 321-365, exporter.py export_entry): one step per file    *)

\* an off-by-one in the file loop bound
NextFileOffByOne ==
    IF exp.fi <= Len(ExportFiles) THEN [exp EXCEPT !.fi = @ + 1]
    ELSE [exp EXCEPT !.ei = NextTarget(exp.name, exp.ei + 1), !.fi = 1]

NextFile ==
    IF exp.fi < Len(ExportFiles) THEN [exp EXCEPT !.fi = @ + 1]
    ELSE [exp EXCEPT !.ei = NextTarget(exp.name, exp.ei + 1), !.fi = 1]

\* the src.exists() check left out
ExportCopyNoSource ==
    /\ exp.active /\ exp.ei <= N
    /\ LET e == Entries[exp.ei]
           f == ExportFiles[exp.fi]
       IN  /\ output[e.name][f] = NoFile \/ exp.overwrite
           /\ output' = [output EXCEPT ![e.name][f] = CopyOf(e.domain)]
    /\ exp' = NextFile
    /\ UNCHANGED <<today, env, live, credFiles, chk, act, exitCode>>

\* shutil.copy2(live/<domain>/<file>, output/<name>/<file>)
ExportCopy ==
    /\ exp.active /\ exp.ei <= N
    /\ LET e == Entries[exp.ei]
           f == ExportFiles[exp.fi]
       IN  /\ live[e.domain].gen > 0
           /\ output[e.name][f] = NoFile \/ exp.overwrite
           /\ output' = [output EXCEPT ![e.name][f] = CopyOf(e.domain)]
    /\ exp' = NextFile
    /\ UNCHANGED <<today, env, live, credFiles, chk, act, exitCode>>

\* an existing target skipped whatever --overwrite says
ExportSkipIgnoringOverwrite ==
    /\ exp.active /\ exp.ei <= N
    /\ LET e == Entries[exp.ei]
           f == ExportFiles[exp.fi]
       IN  \/ live[e.domain].gen = 0
           \/ output[e.name][f] # NoFile
    /\ exp' = NextFile
    /\ UNCHANGED <<world, chk, act, exitCode>>

\* the source is missing, or the target exists and --no-overwrite
ExportSkip ==
    /\ exp.active /\ exp.ei <= N
    /\ LET e == Entries[exp.ei]
           f == ExportFiles[exp.fi]
       IN  \/ live[e.domain].gen = 0
           \/ output[e.name][f] # NoFile /\ ~exp.overwrite
    /\ exp' = NextFile
    /\ UNCHANGED <<world, chk, act, exitCode>>

ExportDone ==
    /\ exp.active /\ exp.ei = N + 1
    /\ IF act.cmd # "none" THEN CompleteAct ELSE Finish(0)
    /\ UNCHANGED world

-----------------------------------------------------------------------------
(* check --fix (cli.py 444-470, 504): new and renew are called as plain    *)
(* functions, so every option not passed keeps its typer.Option default,  *)
(* an OptionInfo object: verbose for new; dry_run and verbose for renew.   *)

FixNew ==
    /\ chk.phase = "fix" /\ act.cmd = "none" /\ chk.ai <= N
    /\ chk.status[chk.ai] = "missing"
    /\ act' = [NoAct EXCEPT !.cmd = "new", !.name = Entries[chk.ai].name,
                            !.force = TRUE, !.export = TRUE,
                            !.verbose = OptionInfo]
    /\ UNCHANGED <<world, chk, exp, exitCode>>

FixRenew ==
    /\ chk.phase = "fix" /\ act.cmd = "none" /\ chk.ai <= N
    /\ chk.status[chk.ai] = "force-renew"
    /\ act' = [NoAct EXCEPT !.cmd = "renew", !.all = FALSE,
                            !.name = Entries[chk.ai].name, !.force = TRUE,
                            !.export = TRUE, !.dryRun = OptionInfo,
                            !.verbose = OptionInfo]
    /\ UNCHANGED <<world, chk, exp, exitCode>>

\* raise typer.Exit(code=worst_code), computed before the fix ran
CheckFinish ==
    /\ chk.phase = "fix" /\ act.cmd = "none" /\ chk.ai = N + 1
    /\ Finish(chk.worst)
    /\ UNCHANGED world

-----------------------------------------------------------------------------
(* The environment of the program                                          *)

\* a day passes, also while a command runs
PassDay ==
    /\ today < MaxDay
    /\ today' = today + 1
    /\ UNCHANGED <<env, live, output, credFiles, frames, exitCode>>

\* the operator sets or clears a variable in the shell or in conf/.env
EditEnv ==
    /\ Idle
    /\ \E k \in ConfigEnvKeys :
          env' = IF k \in env THEN env \ {k} ELSE env \cup {k}
    /\ UNCHANGED <<today, live, output, credFiles, frames, exitCode>>

\* the process is killed (Ctrl-C, a supervisor's timeout, an OSError out
\* of shutil.copy2) between two of its steps; what it wrote stays
Crash ==
    /\ ~Idle
    /\ Finish(Killed)
    /\ UNCHANGED world

-----------------------------------------------------------------------------
Init ==
    /\ today = 0
    /\ env \in SUBSET ConfigEnvKeys
    /\ live = InitLive
    /\ output = [n \in Names |-> [f \in Files |-> NoFile]]
    /\ credFiles = [f \in CredFileNames |-> NoFile]
    /\ chk = NoChk /\ act = NoAct /\ exp = NoExp
    /\ exitCode = NoExit

Next ==
    \/ InvokeNew \/ InvokeRenew \/ InvokeExport \/ InvokeCheck
    \/ ExportBadParameter \/ CheckNotFound \/ ConfigValidate
    \/ NewNotFound \/ NewUnsupportedProvider \/ NewPrepareCredentials
    \/ NewCertbotSucceeds \/ NewCertbotFails
    \/ RenewBadParameter \/ RenewPrepareEntry \/ RenewPrepareAll
    \/ RenewNotFound \/ RenewPrepareNamed
    \/ RenewCertbotSucceeds \/ RenewCertbotFails
    \/ ExportCopy \/ ExportSkip \/ ExportDone
    \/ FixNew \/ FixRenew \/ CheckFinish
    \/ PassDay \/ EditEnv \/ Crash

Spec == Init /\ [][Next]_vars

\* The steps a running certman process takes by itself: its loops, its
\* certbot calls and its returns.  Invocations, days, edits of conf/.env
\* and kills are the operator's and the world's, and are not fair.
ProcessStep ==
    \/ NewNotFound \/ NewUnsupportedProvider \/ NewPrepareCredentials
    \/ NewCertbotSucceeds \/ NewCertbotFails
    \/ RenewBadParameter \/ RenewPrepareEntry \/ RenewPrepareAll
    \/ RenewNotFound \/ RenewPrepareNamed
    \/ RenewCertbotSucceeds \/ RenewCertbotFails
    \/ ExportCopy \/ ExportSkip \/ ExportDone
    \/ FixNew \/ FixRenew \/ CheckFinish

\* A started process keeps running: nothing in cli.py waits on another
\* process, and certbot (subprocess.run) is assumed to return.
FairSpec == Spec /\ WF_vars(ProcessStep)

\* the configuration's <<name, primary domain>> pairs
Bindings == {<<Entries[i].name, Entries[i].domain>> : i \in EIdx}

Store == INSTANCE CertStore


-----------------------------------------------------------------------------
(* Properties                                                              *)

\* the entries whose certificate a finishing new or renew handled
Handled == IF act.target # 0 THEN {act.target}
           ELSE {i \in EIdx : live[Entries[i].domain].gen > 0}

\* the step in which a new or renew returns after its export
IssueExportReturns ==
    /\ act.cmd \in {"new", "renew"} /\ act.pc = "export"
    /\ act'.cmd = "none" /\ exitCode' # Killed

(***************************************************************************)
(* When new or renew (from the command line or from check --fix) returns  *)
(* after exporting, the output directory of every entry it handled holds  *)
(* exactly the live certificate of that entry's primary domain, in every  *)
(* export file: whatever earlier, interrupted or --no-overwrite exports    *)
(* left there.                                                             *)
(***************************************************************************)
IssuedIsExported ==
    [][IssueExportReturns =>
         \A i \in Handled, f \in Files :
            output'[Entries[i].name][f] = [domain |-> Entries[i].domain,
                                           gen |-> live'[Entries[i].domain].gen]
      ]_vars

(***************************************************************************)
(* The exit code of check, as spec section 4.4 and the docstring of check *)
(* state it: 30 when a target has no certificate, else 20 when one has at *)
(* most force_renew_days left (expired included), else 10 when one has at *)
(* most warn_days left, else 0.  Written from the spec, independently of  *)
(* the max-of-weights loop of the code.                                     *)
(***************************************************************************)
SpecCheckCode(T) ==
    IF \E i \in T : live[Entries[i].domain].gen = 0 THEN 30
    ELSE IF \E i \in T : DaysLeft(Entries[i].domain) <= ForceRenewDays THEN 20
    ELSE IF \E i \in T : DaysLeft(Entries[i].domain) <= WarnDays THEN 10
    ELSE 0

(***************************************************************************)
(* check without --fix exits with the documented cron code of the         *)
(* certificates it looked at, at both thresholds and for every --name.    *)
(***************************************************************************)
CheckExitMatchesSpec ==
    [][\A n \in Names \cup {NoName} :
          CheckInvocation(n, FALSE) => exitCode' = SpecCheckCode(CheckTargets(n))]_vars

(***************************************************************************)
(* Every behaviour of the commands, with their failures and kills, is a   *)
(* behaviour of CertStore: certbot steps only issue next generations,     *)
(* export_entry only copies the current certificate of live/<domain> into *)
(* output/<name> for an entry binding name to domain, and nothing else    *)
(* touches either.                                                         *)
(***************************************************************************)
RefinesStore == Store!Spec

FixIssuesMissing ==
    [][/\ chk.phase = "fix" /\ act.cmd = "none"
       /\ chk'.phase = "idle" /\ exitCode' # Killed
       => \A i \in EIdx : chk.status[i] = "missing" => live'[Entries[i].domain].gen > 0]_vars

-----------------------------------------------------------------------------
(* Claims of the spec and of the code's own intent that the code does not *)
(* keep; each is checked by a run of its own that expects a violation.    *)

(***************************************************************************)
(* check --fix plans renew(force=True) for a force-renew certificate      *)
(* (spec 4.4, cli.py 455-470): when that renew returns without an error,  *)
(* the certificate has been renewed and is no longer due for a forced     *)
(* renewal.                                                                *)
(***************************************************************************)
FixRenewRenews ==
    [][/\ chk.phase = "fix" /\ act.cmd = "renew"
       /\ act'.cmd = "none" /\ chk'.phase = "fix"
       => LET d == Entries[act.target].domain
          IN  live'[d].notAfter - today' > ForceRenewDays]_vars

(***************************************************************************)
(* Spec 4.4: the planned fix actions run in results order and a failure   *)
(* of one does not block the later ones.  So when check --fix ends other  *)
(* than by a kill, no planned action is left behind the one it stopped at.*)
(***************************************************************************)
FixAttemptsAll ==
    [][/\ chk.phase = "fix" /\ chk'.phase = "idle" /\ exitCode' # Killed
       => NextFix(chk.status, chk.ai + 1) = N + 1 \/ chk.ai = N + 1]_vars

(***************************************************************************)
(* Spec 4.3: an empty set of missing keys means the configuration is      *)
(* actionable.  So when config-validate would accept the configuration,  *)
(* no step of renew --all's preparation of credentials ends the command:  *)
(* it gets through every entry to certbot.                                 *)
(***************************************************************************)
RenewAllPreparedWhenValid ==
    [][/\ act.cmd = "renew" /\ act.all /\ act.pc = "start"
       /\ ValidateOK(Entries, env) /\ exitCode' # Killed
       => act'.cmd = "renew"]_vars

CertbotEntries ==
    IF act.target = 0 THEN {i \in EIdx : live[Entries[i].domain].gen > 0}
    ELSE {act.target}

CertbotUsesEntryCreds ==
    act.pc = "certbot" =>
        \A i \in CertbotEntries :
            credFiles[CredFileName(Entries[i])] =
                AliyunCredentialsForEntry(Entries[i], env).val

=============================================================================
