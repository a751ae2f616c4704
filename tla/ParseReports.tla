---------------------------- MODULE ParseReports ----------------------------
(***************************************************************************)
(* What a scan does with the reports its tools left: the parsers of        *)
(* parsers.py turn report entries into findings, tool after tool, and the  *)
(* worker upserts each one in a single transaction.  Parsers and workers   *)
(* differ in what they do with an entry that is not as expected.  The same *)
(* target is then scanned again, its issues unchanged but listed in any    *)
(* order.                                                                  *)
(*                                                                         *)
(* An entry is what a tool says of one issue: its form (sound, alien: not  *)
(* an object, null: a field is null where the parser expects a value,      *)
(* garbled: bytes that are no text, or a port that is no number), its      *)
(* section, its severity or status word, the place and what it is about.   *)
(* Names of tools, sections and words are the strings of the code.         *)
(*                                                                         *)
(* An operator named X_Y is X with a mistake in it: no action uses it.     *)
(***************************************************************************)
EXTENDS Integers, Sequences, FiniteSets, Functions

CONSTANTS
    Entries,     \* of each tool: the entries it may report
    MaxEntries,  \* bound: entries in all the reports of a scan
    MaxFaults    \* bound: failed lookups and refused writes

ToolsOf ==
    [web    |-> <<"Nuclei", "Katana", "Ffuf", "ZAP", "Testssl", "SQLmap">>,
     sast   |-> <<"Semgrep", "Trivy", "Gitleaks", "Hadolint">>,
     infra  |-> <<"Nmap">>,
     cloud  |-> <<"ScoutSuite", "Prowler">>,
     mobile |-> <<"MobSF">>]

Kinds == DOMAIN ToolsOf
Tools == UNION {Range(ToolsOf[k]) : k \in Kinds}

Forms == {"sound", "alien", "null", "garbled"}

(* Tools whose reports are not decoded as a whole.                         *)
Piecewise == {"Nuclei", "Katana", "Nmap"}

Shape == [form : Forms, section : STRING, word : STRING,
          place : STRING, what : STRING, line : STRING]

ASSUME ParseReportsAssumption ==
    /\ DOMAIN Entries = Tools
    /\ \A t \in Tools : Entries[t] \subseteq Shape
    /\ \A i \in Entries["Trivy"] :
         i.section \in {"Vulnerabilities", "Secrets", "Misconfigurations"}
    /\ \A i \in Entries["MobSF"] :
         i.form = "sound" => i.section \in {"findings", "permissions", "network"}
    /\ \A t \in Tools \ Piecewise : \A i \in Entries[t] : i.form # "garbled"
    /\ MaxEntries \in Nat /\ MaxFaults \in Nat
-----------------------------------------------------------------------------
(* What a parser makes of an entry: nothing, an exception, or a finding    *)
(* whose hash is taken from its name and what its location tells apart.    *)
Skip  == [out |-> "skip", severity |-> "none", key |-> <<>>]
Raise == [out |-> "raise", severity |-> "none", key |-> <<>>]
Found(severity, name, place, line) ==
    [out |-> "find", severity |-> severity, key |-> <<name, place, line>>]

Severities == {"Critical", "High", "Medium", "Low", "Info"}

SevMap ==
    [CRITICAL |-> "Critical", HIGH |-> "High", MEDIUM |-> "Medium", LOW |-> "Low",
     UNKNOWN |-> "Info", ERROR |-> "High", WARNING |-> "Medium", INFO |-> "Info",
     critical |-> "Critical", high |-> "High", medium |-> "Medium", low |-> "Low",
     error |-> "High", warning |-> "Medium", info |-> "Info", style |-> "Info",
     ignore |-> "Info"]

Capitalized == [unknown |-> "Unknown", INVENTORY |-> "Inventory"]

(* A word the map lacks keeps its own spelling, capitalised. *)
NormSev(word) ==
    CASE word = "" -> "Info"
      [] word \in DOMAIN SevMap -> SevMap[word]
      [] word \in DOMAIN Capitalized -> Capitalized[word]

Lookup(map, word, default) == IF word \in DOMAIN map THEN map[word] ELSE default

(* A line that does not parse is passed over, but reading it must succeed. *)
BadLine(i) == IF i.form = "garbled" THEN Raise ELSE Skip

Nuclei(i) ==
    IF i.form = "sound" THEN Found(NormSev(i.word), i.what, i.place, "") ELSE BadLine(i)

Katana(i) ==
    IF i.form = "sound" /\ i.place # ""
    THEN Found("Info", "Discovered URL", i.place, "") ELSE BadLine(i)

Ffuf(i) ==
    CASE i.form = "sound" /\ (i.word \in {"404", "400"} \/ i.place = "") -> Skip
      [] i.form = "sound" -> Found("Info", i.what, i.place, "")
      [] OTHER -> Raise

ZapRisk(code) ==
    CASE code = "3" -> "High" [] code = "2" -> "Medium" [] code = "1" -> "Low" [] OTHER -> "Info"

(* The finding is named by the first instance of the alert. *)
Zap(i) ==
    IF i.what = "" THEN Skip
    ELSE Found(ZapRisk(i.word), i.what, i.place, "")

(* A severity that is missing is none of those skipped. *)
Testssl(i) ==
    CASE i.form # "sound" -> Raise
      [] i.form = "sound" /\ i.word \in {"OK", "INFO", "NOT_TESTED", "DEBUG", "WARN"} -> Skip
      [] OTHER -> Found(Lookup([CRITICAL |-> "Critical", HIGH |-> "High",
                                MEDIUM |-> "Medium", LOW |-> "Low"], i.word, "Medium"),
                        i.what, i.place, "")

(* The log of a host counts only when its XML files gave no finding. *)
SqlmapLog(i, before) ==
    ~\E x \in before : x.section = "xml" /\ x.place = i.place /\ x.form = "sound"

Sqlmap(i, before) ==
    IF i.form = "sound" /\ (i.section = "log" => SqlmapLog(i, before))
    THEN Found("Critical", i.what, i.place, "") ELSE Skip

Semgrep(i) ==
    IF i.form = "sound" THEN Found(NormSev(i.word), i.what, i.place, i.line) ELSE Raise

TrivyVulnerability(i) ==
    IF i.form = "sound" THEN Found(NormSev(i.word), i.what, i.place, "") ELSE Raise

(* The line tells secrets of one file apart, but not misconfigurations. *)
TrivySecret(i) ==
    IF i.form # "alien" THEN Found("Critical", i.what, i.place, i.line) ELSE Raise

TrivyMisconfiguration(i) ==
    IF i.form # "alien" THEN Found(NormSev(i.word), i.what, i.place, "") ELSE Raise

Trivy(i) ==
    CASE i.section = "Vulnerabilities"   -> TrivyVulnerability(i)
      [] i.section = "Secrets"           -> TrivySecret(i)
      [] i.section = "Misconfigurations" -> TrivyMisconfiguration(i)

Gitleaks(i) ==
    IF i.form = "sound" THEN Found("Critical", i.what, i.place, i.line) ELSE Raise

Hadolint(i) ==
    IF i.form # "alien" THEN Found(NormSev(i.word), i.what, i.place, i.line) ELSE Raise

(* Sections: the ports of a host, and the scripts run on a port. *)
NmapPort(i) ==
    IF i.word = "open" THEN Found("Info", i.what, i.place, "") ELSE Skip

NmapScript(i) ==
    IF i.word # "open" \/ i.line = "ERROR" THEN Skip
    ELSE Found(Lookup([vuln |-> "High", ssl |-> "Medium"], i.what, "Info"),
               i.what, i.place, "")

Nmap(i) ==
    IF i.form = "garbled" THEN Raise
    ELSE IF i.section = "port" THEN NmapPort(i) ELSE NmapScript(i)

Scoutsuite(i) ==
    CASE i.form = "alien" -> Skip
      [] i.form = "null"  -> Raise
      [] i.form = "sound" /\ i.word \notin {"danger", "warning"} -> Skip
      [] OTHER -> Found(IF i.word = "danger" THEN "High" ELSE "Medium", i.what, i.place, "")

Prowler(i) ==
    CASE i.form = "alien" -> Skip
      [] i.form = "null"  -> Raise
      [] i.form = "sound" /\ i.section # "FAIL" -> Skip
      [] OTHER -> Found(Lookup([critical |-> "Critical", high |-> "High", medium |-> "Medium",
                                low |-> "Low", informational |-> "Info"], i.word, "Medium"),
                        i.what, i.place, "")

(* In code findings any word but four counts as Medium, secure included.   *)
MobsfCode(i) ==
    Found(Lookup([critical |-> "Critical", high |-> "High", low |-> "Low"], i.word, "Medium"),
          i.what, "code", "")

MobsfPermission(i) ==
    IF i.word = "dangerous" THEN Found("High", i.what, "permission", "") ELSE Skip

MobsfNetwork(i) ==
    IF i.word \in {"secure", "info"} THEN Skip
    ELSE Found(Lookup([high |-> "High", low |-> "Low"], i.word, "Medium"),
               i.what, "network", "")

Mobsf(i) ==
    CASE i.form = "alien" -> Skip
      [] i.form = "null"  -> Raise
      [] i.form = "sound" /\ i.section = "findings"    -> MobsfCode(i)
      [] i.form = "sound" /\ i.section = "permissions" -> MobsfPermission(i)
      [] i.form = "sound" /\ i.section = "network"     -> MobsfNetwork(i)

Parse(t, i, before) ==
    CASE t = "Nuclei"   -> Nuclei(i)   [] t = "Katana"     -> Katana(i)
      [] t = "Ffuf"     -> Ffuf(i)     [] t = "ZAP"        -> Zap(i)
      [] t = "Testssl"  -> Testssl(i)  [] t = "SQLmap"     -> Sqlmap(i, before)
      [] t = "Semgrep"  -> Semgrep(i)  [] t = "Trivy"      -> Trivy(i)
      [] t = "Gitleaks" -> Gitleaks(i) [] t = "Hadolint"   -> Hadolint(i)
      [] t = "Nmap"     -> Nmap(i)     [] t = "ScoutSuite" -> Scoutsuite(i)
      [] t = "Prowler"  -> Prowler(i)  [] t = "MobSF"      -> Mobsf(i)
-----------------------------------------------------------------------------
VARIABLES
    kind,     \* the kind of scan
    round,    \* 1 and 2: the scan and the scan that repeats it
    at,       \* index of the tool whose report is parsed
    said,     \* of each tool: the entries of its first report
    done,     \* entries of it parsed
    mine,     \* findings the session has added
    broken,   \* the session refuses statements until it is rolled back
    rows,     \* findings in the database
    outcome,  \* of each round: none, Completed, Failed, Running
    cut,      \* tools whose exception the round swallowed
    missed,   \* the first scan could not read all reports (history)
    faults

progress == <<at, done, mine, broken>>
vars == <<kind, round, progress, said, rows, outcome, cut, missed, faults>>

Tool == ToolsOf[kind][at]

Parsing == outcome[round] = "none"
AtTool  == Parsing /\ at <= Len(ToolsOf[kind])

Init ==
    /\ kind \in Kinds
    /\ round = 1 /\ at = 1
    /\ said = [t \in Tools |-> {}]
    /\ done = {} /\ mine = {} /\ broken = FALSE
    /\ rows = {}
    /\ outcome = [n \in 1 .. 2 |-> "none"]
    /\ cut = {} /\ missed = FALSE
    /\ faults = 0

Reported == Cardinality(UNION {{<<t, i>> : i \in said[t]} : t \in Tools})

NextTool == at' = at + 1 /\ done' = {}

(* No file, or one that is not JSON or XML: a warning in the log at most.  *)
(* The worker writes MobSF's report itself.                                *)
Unreadable ==
    /\ AtTool /\ done = {} /\ kind # "mobile"
    /\ NextTool
    /\ missed' = (missed \/ round = 1)
    /\ UNCHANGED <<kind, round, mine, broken, said, rows, outcome, cut, faults>>

(* The alerts of a second report may list their instances otherwise. *)
Variants(i) ==
    IF Tool = "ZAP" /\ i.line # ""
    THEN {i, [i EXCEPT !.place = i.line, !.line = i.place]} ELSE {i}

(* The XML files SQLmap left for a host are read before the host's log.    *)
SameHost(S, section, i) == {x \in S : x.section = section /\ x.place = i.place}

InOrder_Any(i) == TRUE
InOrder(i) ==
    Tool = "SQLmap" =>
        /\ i.section = "xml" => SameHost(done, "log", i) = {}
        /\ i.section = "log" /\ round = 2 => SameHost(said[Tool] \ done, "xml", i) = {}

Unread == IF ~AtTool THEN {}
          ELSE {i \in (IF round = 1 THEN Entries[Tool] ELSE said[Tool]) \ done : InOrder(i)}

ReadEntry(i) ==
    /\ i \in Unread
    /\ IF round = 1
       THEN Reported < MaxEntries /\ said' = [said EXCEPT ![Tool] = @ \cup {i}]
       ELSE UNCHANGED said

(* Cloud and mobile scans catch what one tool's report raises. *)
Catches(k) == k \in {"cloud", "mobile"}

Fails ==
    /\ outcome' = [outcome EXCEPT ![round] = "Failed"]
    /\ UNCHANGED <<at, done, mine, cut>>

ToolError ==
    IF Catches(kind)
    THEN /\ cut' = cut \cup {Tool}
         /\ NextTool
         /\ UNCHANGED <<mine, outcome>>
    ELSE Fails

Skipped(i) ==
    /\ ReadEntry(i)
    /\ Parse(Tool, i, done).out = "skip"
    /\ done' = done \cup {i}
    /\ UNCHANGED <<kind, round, at, mine, broken, rows, outcome, cut, missed, faults>>

ParserRaises(i) ==
    /\ ReadEntry(i)
    /\ Parse(Tool, i, done).out = "raise"
    /\ ToolError
    /\ UNCHANGED <<kind, round, broken, rows, missed, faults>>

Finding(i) == [tool |-> Tool, key |-> Parse(Tool, i, done).key,
               severity |-> Parse(Tool, i, done).severity]

Known_NameOnly(f) == \E r \in rows \cup mine : r.tool = f.tool /\ r.key[1] = f.key[1]
Known(f) == \E r \in rows \cup mine : r.tool = f.tool /\ r.key = f.key

(* _upsert_finding: a hash on record keeps its row as it is. *)
Upsert(i) ==
    /\ ReadEntry(i)
    /\ \E v \in (IF round = 1 THEN {i} ELSE Variants(i)) :
         /\ Parse(Tool, v, done).out = "find"
         /\ mine' = IF Known(Finding(v)) THEN mine ELSE mine \cup {Finding(v)}
    /\ ~broken
    /\ done' = done \cup {i}
    /\ UNCHANGED <<kind, round, at, broken, rows, outcome, cut, missed, faults>>

(* The lookup of the hash raises: two rows have it, or a refused write     *)
(* left the session unusable.                                              *)
LookupRaises(i) ==
    /\ ReadEntry(i)
    /\ Parse(Tool, i, done).out = "find"
    /\ IF broken THEN UNCHANGED faults
       ELSE faults < MaxFaults /\ faults' = faults + 1
    /\ ToolError
    /\ UNCHANGED <<kind, round, broken, rows, missed>>

(* The database refuses the new row: a value longer than its column, a NUL *)
(* character, a lost connection.                                           *)
WriteRefused(i) ==
    /\ ReadEntry(i)
    /\ Parse(Tool, i, done).out = "find" /\ ~Known(Finding(i))
    /\ ~broken /\ faults < MaxFaults
    /\ faults' = faults + 1
    /\ broken' = TRUE
    /\ ToolError
    /\ UNCHANGED <<kind, round, rows, missed>>

EndReport ==
    /\ AtTool
    /\ round = 1 \/ said[Tool] \subseteq done
    /\ NextTool
    /\ UNCHANGED <<kind, round, mine, broken, said, rows, outcome, cut, missed, faults>>

Parsed == Parsing /\ at > Len(ToolsOf[kind])

Commit ==
    /\ Parsed /\ ~broken
    /\ rows' = rows \cup mine
    /\ outcome' = [outcome EXCEPT ![round] = "Completed"]
    /\ UNCHANGED <<kind, round, progress, said, cut, missed, faults>>

(* Nothing sets a cloud scan to Failed when its parse raises. *)
OnRaise_Always(k) == "Running"
OnRaise(k) == IF k = "cloud" THEN "Running" ELSE "Failed"

CommitBroken ==
    /\ Parsed /\ broken
    /\ outcome' = [outcome EXCEPT ![round] = OnRaise(kind)]
    /\ UNCHANGED <<kind, round, progress, said, rows, cut, missed, faults>>

(* The target is scanned again by a task with a session of its own. *)
Rescan ==
    /\ round = 1 /\ ~Parsing
    /\ round' = 2 /\ at' = 1 /\ done' = {} /\ mine' = {} /\ broken' = FALSE
    /\ missed' = (missed \/ cut # {}) /\ cut' = {}
    /\ UNCHANGED <<kind, said, rows, outcome, faults>>
-----------------------------------------------------------------------------
Next ==
    \/ Unreadable \/ EndReport
    \/ \E i \in Unread :
         \/ Skipped(i) \/ ParserRaises(i) \/ Upsert(i)
         \/ LookupRaises(i) \/ WriteRefused(i)
    \/ Commit \/ CommitBroken \/ Rescan

Spec == Init /\ [][Next]_vars
-----------------------------------------------------------------------------
(* Findings that a report of t names in some order of its entries.         *)
Names(t, S) == {Parse(t, i, S).key : i \in {x \in S : Parse(t, x, S).out = "find"}}
RowsOf(t)   == {f.key : f \in {r \in rows : r.tool = t}}

(* A scan that ends Completed has on record every finding of every report  *)
(* it could read, a malformed entry beside it or not: an exception that    *)
(* would lose some has made it Failed, except in cloud and mobile scans,   *)
(* which say so in the progress log; and what is on record came from a     *)
(* scan that completed.                                                    *)
CompletedIsWhole ==
    /\ outcome[1] = "Completed" /\ round = 1 =>
         \A t \in Range(ToolsOf[kind]) \ cut : Names(t, said[t]) = RowsOf(t)
    /\ cut # {} => kind \in {"cloud", "mobile"}
    /\ rows # {} => \E n \in 1 .. 2 : outcome[n] = "Completed"

(* Scanning an unchanged target again adds no finding, whatever the order  *)
(* of the reports, unless the first scan could not read all of them; only  *)
(* a ZAP alert of several instances may be taken for a new one.            *)
RescanStep ==
    round = 2 /\ outcome[1] = "Completed" /\ ~missed =>
        \A f \in rows' \ rows :
            f.tool = "ZAP" /\ \E i \in said["ZAP"] : i.line # "" /\ i.what = f.key[1]

RescanAddsNothing == [][RescanStep]_vars

(* A parse leaves its scan Running, for recovery to find, only in a cloud  *)
(* scan whose write the database refused.                                  *)
StrandedOnlyByRefusal ==
    \A n \in 1 .. 2 : outcome[n] = "Running" => kind = "cloud" /\ faults > 0
=============================================================================
