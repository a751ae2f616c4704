------------------------- MODULE ParseReportsProofs ------------------------
(***************************************************************************)
(* What the reports of a scan leave on record, for any entries the tools   *)
(* may report and any number of entries and faults.  Which findings they   *)
(* leave depends on one fact about the parsers: only SQLmap's looks at     *)
(* other entries, and only the XML of a host at its log.  Their severities *)
(* depend on the maps of the parsers.                                      *)
(***************************************************************************)
EXTENDS ParseReports, TLAPS

(* The tools of this scan, and the findings of a tool in a set of them.    *)
Run        == ToolsOf[kind]
Keys(S, t) == {f.key : f \in {r \in S : r.tool = t}}

TypeInv ==
    /\ kind \in Kinds /\ round \in 1 .. 2 /\ at \in Nat \ {0}
    /\ said \in [Tools -> SUBSET Shape]
    /\ AtTool => done \subseteq said[Tool]
    /\ outcome \in [1 .. 2 -> {"none", "Completed", "Failed", "Running"}]
    /\ faults \in Nat

(* The first scan: each report is read as it is written, tool after tool,  *)
(* and the session holds what the entries so far name.                     *)
FirstInv == round = 1 =>
    /\ outcome[2] = "none"
    /\ Parsing =>
         /\ rows = {}
         /\ AtTool => done = said[Tool]
         /\ \A i \in DOMAIN Run : i > at => said[Run[i]] = {}
         /\ \A i \in DOMAIN Run : Run[i] \in cut => i < at
         /\ \A t \in Range(Run) \ cut : Keys(mine, t) = Names(t, said[t])

(* The second scan: what the reports name is on record, and the session    *)
(* has added nothing but alerts of ZAP that have several instances.        *)
Reordered(f) == f.tool = "ZAP" /\ \E i \in said["ZAP"] : i.line # "" /\ i.what = f.key[1]

SecondInv == round = 2 /\ outcome[1] = "Completed" /\ ~missed =>
    /\ \A t \in Range(Run) : Names(t, said[t]) \subseteq RowsOf(t)
    /\ \A f \in mine : Reordered(f)

BrokenInv == broken => faults > 0

IInv == /\ TypeInv /\ FirstInv /\ SecondInv /\ BrokenInv
        /\ CompletedIsWhole /\ StrandedOnlyByRefusal
-----------------------------------------------------------------------------
(* Each scan runs its tools in sequence, each of them once. *)
LEMMA ToolsDiffer ==
  ASSUME NEW k \in Kinds
  PROVE  /\ Len(ToolsOf[k]) \in Nat /\ DOMAIN ToolsOf[k] = 1 .. Len(ToolsOf[k])
         /\ \A i \in DOMAIN ToolsOf[k] : ToolsOf[k][i] \in Tools
         /\ \A i, j \in DOMAIN ToolsOf[k] : ToolsOf[k][i] = ToolsOf[k][j] => i = j
<1>1. k \in {"web", "sast", "infra", "cloud", "mobile"}
  BY DEF Kinds, ToolsOf
<1>2. /\ Len(ToolsOf[k]) \in Nat /\ DOMAIN ToolsOf[k] = 1 .. Len(ToolsOf[k])
      /\ \A i, j \in DOMAIN ToolsOf[k] : ToolsOf[k][i] = ToolsOf[k][j] => i = j
  <2>1. CASE k = "web"
    BY <2>1 DEF ToolsOf
  <2>2. CASE k = "sast"
    BY <2>2 DEF ToolsOf
  <2>3. CASE k = "infra"
    BY <2>3 DEF ToolsOf
  <2>4. CASE k = "cloud"
    BY <2>4 DEF ToolsOf
  <2>5. CASE k = "mobile"
    BY <2>5 DEF ToolsOf
  <2> QED
    BY <1>1, <2>1, <2>2, <2>3, <2>4, <2>5
<1>3. \A i \in DOMAIN ToolsOf[k] : ToolsOf[k][i] \in Tools
  BY DEF Tools, Range
<1> QED
  BY <1>2, <1>3

LEMMA ToolType ==
  ASSUME TypeInv, AtTool
  PROVE  /\ at \in DOMAIN Run /\ Run[at] = Tool
         /\ Tool \in Tools /\ Tool \in Range(Run)
<1>1. at \in DOMAIN Run
  BY ToolsDiffer DEF TypeInv, AtTool, Run
<1> QED
  BY <1>1, ToolsDiffer DEF TypeInv, Tool, Run, Range

(* Every tool of a scan has one place in its sequence. *)
LEMMA RunTools ==
  ASSUME TypeInv
  PROVE  /\ Range(Run) \subseteq Tools
         /\ Range(Run) = {Run[i] : i \in DOMAIN Run}
         /\ \A i, j \in DOMAIN Run : Run[i] = Run[j] => i = j
         /\ DOMAIN Run = 1 .. Len(Run) /\ Len(Run) \in Nat
BY ToolsDiffer DEF TypeInv, Run, Range

(* The tools of the parsers are those of the scans. *)
LEMMA ToolNames ==
  Tools = {"Nuclei", "Katana", "Ffuf", "ZAP", "Testssl", "SQLmap", "Semgrep", "Trivy",
           "Gitleaks", "Hadolint", "Nmap", "ScoutSuite", "Prowler", "MobSF"}
<1>1. Kinds = {"web", "sast", "infra", "cloud", "mobile"}
  BY DEF Kinds, ToolsOf
<1>2. /\ Range(ToolsOf["web"]) = {"Nuclei", "Katana", "Ffuf", "ZAP", "Testssl", "SQLmap"}
      /\ Range(ToolsOf["sast"]) = {"Semgrep", "Trivy", "Gitleaks", "Hadolint"}
      /\ Range(ToolsOf["infra"]) = {"Nmap"}
      /\ Range(ToolsOf["cloud"]) = {"ScoutSuite", "Prowler"}
      /\ Range(ToolsOf["mobile"]) = {"MobSF"}
  BY DEF ToolsOf, Range
<1> QED
  BY <1>1, <1>2 DEF Tools

(* Only SQLmap's parser looks at what it has read before. *)
LEMMA ParseAlone ==
  ASSUME NEW t \in Tools, t # "SQLmap", NEW i, NEW R, NEW S
  PROVE  Parse(t, i, R) = Parse(t, i, S)
BY ToolNames DEF Parse

(* An entry read in order changes nothing about those read before it. *)
LEMMA ParseStays ==
  ASSUME NEW t \in Tools, NEW S, NEW i, NEW x \in S \cup {i},
         t = "SQLmap" /\ i.section = "xml" => SameHost(S, "log", i) = {}
  PROVE  Parse(t, x, S \cup {i}) = Parse(t, x, S)
<1>1. CASE t # "SQLmap"
  BY <1>1, ParseAlone
<1>2. CASE t = "SQLmap"
  <2>1. x.section = "log" => (SqlmapLog(x, S \cup {i}) <=> SqlmapLog(x, S))
    BY <1>2 DEF SqlmapLog, SameHost
  <2>2. Sqlmap(x, S \cup {i}) = Sqlmap(x, S)
    BY <2>1 DEF Sqlmap
  <2> QED
    BY <1>2, <2>2 DEF Parse
<1> QED
  BY <1>1, <1>2

(* What one more entry adds to the findings named. *)
LEMMA NamesGrow ==
  ASSUME NEW t \in Tools, NEW S, NEW i,
         t = "SQLmap" /\ i.section = "xml" => SameHost(S, "log", i) = {}
  PROVE  Names(t, S \cup {i}) =
           Names(t, S) \cup (IF Parse(t, i, S).out = "find" THEN {Parse(t, i, S).key} ELSE {})
<1>1. \A x \in S \cup {i} : Parse(t, x, S \cup {i}) = Parse(t, x, S)
  BY ParseStays
<1> QED
  BY <1>1 DEF Names

(* Read again, an entry is parsed as it was. *)
LEMMA ParseAgain ==
  ASSUME NEW t \in Tools, NEW S, NEW R \in SUBSET S, NEW i \in S,
         t = "SQLmap" /\ i.section = "log" => SameHost(S \ R, "xml", i) = {}
  PROVE  Parse(t, i, R) = Parse(t, i, S)
<1>1. CASE t # "SQLmap"
  BY <1>1, ParseAlone
<1>2. CASE t = "SQLmap"
  <2>1. i.section = "log" => (SqlmapLog(i, R) <=> SqlmapLog(i, S))
    BY <1>2 DEF SqlmapLog, SameHost
  <2>2. Sqlmap(i, R) = Sqlmap(i, S)
    BY <2>1 DEF Sqlmap
  <2> QED
    BY <1>2, <2>2 DEF Parse
<1> QED
  BY <1>1, <1>2

(* The findings of ZAP are named by the alert, not by its instances. *)
LEMMA ZapKey ==
  ASSUME NEW v, NEW S, Parse("ZAP", v, S).out = "find"
  PROVE  Parse("ZAP", v, S).key[1] = v.what
<1> DEFINE alert == Found(ZapRisk(v.word), v.what, v.place, "")
<1>1. Parse("ZAP", v, S) = IF v.what = "" THEN Skip ELSE alert
  BY Zenon DEF Parse, Zap
<1>2. Skip.out # "find" /\ alert.key[1] = v.what
  BY DEF Skip, Found
<1> HIDE DEF alert
<1> QED
  BY <1>1, <1>2, Zenon
-----------------------------------------------------------------------------
(* Reading an entry: the first time it joins what the tool has said. *)
LEMMA ReadEffect ==
  ASSUME TypeInv, NEW i \in Unread, ReadEntry(i)
  PROVE  /\ AtTool /\ i \in Shape /\ i \notin done /\ InOrder(i)
         /\ said' \in [Tools -> SUBSET Shape]
         /\ i \in said'[Tool] /\ said[Tool] \subseteq said'[Tool]
         /\ round = 1 => /\ said'[Tool] = said[Tool] \cup {i}
                         /\ \A t \in Tools \ {Tool} : said'[t] = said[t]
         /\ round = 2 => said' = said
<1>1. AtTool /\ i \notin done /\ InOrder(i)
      /\ i \in (IF round = 1 THEN Entries[Tool] ELSE said[Tool])
  BY DEF Unread
<1>2. Tool \in Tools /\ round \in {1, 2}
  BY <1>1, ToolType DEF TypeInv
<1>3. i \in Shape
  BY <1>1, <1>2, ParseReportsAssumption DEF TypeInv, ParseReportsAssumption
<1>4. CASE round = 1
  <2>1. said' = [said EXCEPT ![Tool] = @ \cup {i}]
    BY <1>4 DEF ReadEntry
  <2> QED
    BY <1>1, <1>2, <1>3, <1>4, <2>1 DEF TypeInv
<1>5. CASE round = 2
  BY <1>1, <1>2, <1>3, <1>5 DEF ReadEntry, TypeInv
<1> QED
  BY <1>2, <1>4, <1>5

(* The order in which the XML and the log of SQLmap are read. *)
LEMMA OrderKept ==
  ASSUME NEW i, InOrder(i), NEW t, t = Tool
  PROVE  /\ t = "SQLmap" /\ i.section = "xml" => SameHost(done, "log", i) = {}
         /\ t = "SQLmap" /\ i.section = "log" /\ round = 2
              => SameHost(said[t] \ done, "xml", i) = {}
BY DEF InOrder

(* The findings of the tools before, and after, the next one. *)
LEMMA NextToolType ==
  ASSUME TypeInv, NextTool, UNCHANGED <<kind, round, outcome, faults>>,
         said' \in [Tools -> SUBSET Shape]
  PROVE  TypeInv'
BY DEF TypeInv, NextTool

(* Going to the next tool in the first scan, its report read or cut. *)
LEMMA NextToolFirst ==
  ASSUME TypeInv, FirstInv, AtTool, round = 1, NextTool,
         UNCHANGED <<kind, round, mine, rows, outcome>>,
         \A t \in Tools \ {Tool} : said'[t] = said[t],
         \/ UNCHANGED said /\ cut' = cut
         \/ cut' = cut \cup {Tool}
  PROVE  FirstInv'
<1> USE DEF TypeInv
<1>1. Parsing /\ at \in DOMAIN Run /\ Run[at] = Tool
  BY ToolType DEF AtTool
<1>2. Run' = Run /\ at' = at + 1 /\ done' = {}
  BY DEF Run, NextTool
<1>3. \A i \in DOMAIN Run : i # at => Run[i] \in Tools \ {Tool}
  BY <1>1, RunTools
<1>4. \A i \in DOMAIN Run : i > at' => said'[Run[i]] = {}
  BY <1>1, <1>2, <1>3, RunTools DEF FirstInv
<1>5. AtTool' => done' = said'[Tool']
  <2> SUFFICES ASSUME AtTool' PROVE said'[Tool'] = {}
      BY <1>2
  <2>1. at + 1 \in DOMAIN Run /\ Tool' = Run[at + 1]
    BY <1>1, <1>2, RunTools DEF AtTool, Tool, Run
  <2>2. said[Run[at + 1]] = {}
    BY <1>1, <2>1 DEF FirstInv
  <2> QED
    BY <1>3, <2>1, <2>2
<1>6. \A i \in DOMAIN Run : Run[i] \in cut' => i < at'
  <2> SUFFICES ASSUME NEW i \in DOMAIN Run, Run[i] \in cut' PROVE i < at + 1
      BY <1>2
  <2>1. CASE Run[i] \in cut
    BY <1>1, <2>1, RunTools DEF FirstInv
  <2>2. CASE Run[i] = Tool
    BY <1>1, <2>2, RunTools
  <2> QED
    BY <2>1, <2>2
<1>7. \A t \in Range(Run) \ cut' : Keys(mine', t) = Names(t, said'[t])
  <2> SUFFICES ASSUME NEW t \in Range(Run) \ cut'
               PROVE  Keys(mine', t) = Names(t, said'[t])
      OBVIOUS
  <2>1. t \in Range(Run) \ cut /\ t \in Tools
    BY RunTools
  <2>2. said'[t] = said[t]
    BY <2>1
  <2> QED
    BY <1>1, <2>1, <2>2 DEF FirstInv
<1>8. rows' = {} /\ outcome'[2] = "none"
  BY <1>1 DEF FirstInv
<1> QED
  BY <1>2, <1>4, <1>5, <1>6, <1>7, <1>8, Zenon DEF FirstInv

(* Parsing an entry in the first scan: the session holds what it names. *)
LEMMA EntryFirst ==
  ASSUME TypeInv, FirstInv, NEW i \in Unread, ReadEntry(i), round = 1,
         done' = done \cup {i}, UNCHANGED <<kind, round, at, rows, outcome, cut>>,
         Keys(mine', Tool) = Keys(mine, Tool) \cup
           (IF Parse(Tool, i, done).out = "find" THEN {Parse(Tool, i, done).key} ELSE {}),
         \A t \in Tools \ {Tool} : Keys(mine', t) = Keys(mine, t)
  PROVE  FirstInv'
<1> USE DEF TypeInv
<1>1. /\ Parsing /\ AtTool /\ at \in DOMAIN Run /\ Run[at] = Tool /\ Tool \in Tools
      /\ InOrder(i) /\ done = said[Tool] /\ said'[Tool] = done \cup {i}
      /\ \A t \in Tools \ {Tool} : said'[t] = said[t]
  BY ToolType, ReadEffect DEF AtTool, FirstInv
<1>2. Run' = Run /\ Tool' = Tool /\ (AtTool' <=> AtTool) /\ (Parsing' <=> Parsing)
  BY DEF Run, Tool, AtTool, Parsing
<1>3. \A j \in DOMAIN Run : j # at => Run[j] \in Tools \ {Tool}
  BY <1>1, RunTools
<1>4. \A j \in DOMAIN Run : j > at => said'[Run[j]] = {}
  BY <1>1, <1>3 DEF FirstInv
<1>5. \A t \in Range(Run) \ cut : Keys(mine', t) = Names(t, said'[t])
  <2> SUFFICES ASSUME NEW t \in Range(Run) \ cut
               PROVE  Keys(mine', t) = Names(t, said'[t])
      OBVIOUS
  <2>1. Keys(mine, t) = Names(t, said[t]) /\ t \in Tools
    BY <1>1, RunTools DEF FirstInv
  <2>2. CASE t = Tool
    <3>1. t = "SQLmap" /\ i.section = "xml" => SameHost(done, "log", i) = {}
      BY <1>1, <2>2, OrderKept
    <3>2. Names(t, done \cup {i}) = Names(t, done) \cup
            (IF Parse(t, i, done).out = "find" THEN {Parse(t, i, done).key} ELSE {})
      BY <2>1, <3>1, NamesGrow
    <3> QED
      BY <1>1, <2>1, <2>2, <3>2, Zenon
  <2>3. CASE t # Tool
    BY <1>1, <2>1, <2>3
  <2> QED
    BY <2>2, <2>3
<1>6. \A j \in DOMAIN Run : Run[j] \in cut => j < at
  BY <1>1 DEF FirstInv
<1>7. rows' = {} /\ outcome'[2] = "none" /\ done' = said'[Tool]
  BY <1>1 DEF FirstInv
<1> QED
  BY <1>2, <1>4, <1>5, <1>6, <1>7, Zenon DEF FirstInv

(* The first scan is over once it has an outcome. *)
LEMMA OverFirst ==
  ASSUME TypeInv, FirstInv, Parsing, NEW x \in {"Completed", "Failed", "Running"},
         outcome' = [outcome EXCEPT ![round] = x], UNCHANGED round
  PROVE  FirstInv' /\ ~Parsing'
<1>1. ~Parsing'
  BY DEF TypeInv, Parsing
<1>2. round = 1 => outcome'[2] = "none"
  BY DEF TypeInv, FirstInv
<1> QED
  BY <1>1, <1>2 DEF FirstInv

(* A second scan that adds no finding keeps what is on record. *)
LEMMA SecondKept ==
  ASSUME TypeInv, SecondInv, Parsing, UNCHANGED <<kind, round, mine, rows>>,
         round = 2 => UNCHANGED said, missed => missed',
         outcome' = outcome \/ \E x : outcome' = [outcome EXCEPT ![round] = x]
  PROVE  SecondInv'
<1> SUFFICES ASSUME round = 2, outcome'[1] = "Completed", ~missed'
             PROVE  /\ \A t \in Range(Run') : Names(t, said'[t]) \subseteq RowsOf(t)'
                    /\ \A f \in mine' : Reordered(f)'
    BY Zenon DEF SecondInv
<1>1. outcome[1] = "Completed" /\ ~missed
  BY DEF TypeInv
<1>2. /\ \A t \in Range(Run) : Names(t, said[t]) \subseteq RowsOf(t)
      /\ \A f \in mine : Reordered(f)
  BY <1>1 DEF SecondInv
<1>3. Run' = Run /\ said' = said /\ mine' = mine /\ rows' = rows
  BY DEF Run
<1>4. \A t : RowsOf(t)' = RowsOf(t)
  BY <1>3 DEF RowsOf
<1>5. \A f \in mine : Reordered(f)'
  BY <1>2, <1>3 DEF Reordered
<1> QED
  BY <1>2, <1>3, <1>4, <1>5

(* Nothing becomes Completed: what is on record came from a scan that did, *)
(* a report is cut only where that is caught, and only a refused write of  *)
(* a cloud scan leaves it Running.                                         *)
LEMMA StepKept ==
  ASSUME IInv, Parsing, UNCHANGED <<kind, round, rows>>,
         \/ outcome' = outcome
         \/ \E x \in {"Failed", "Running"} :
              /\ outcome' = [outcome EXCEPT ![round] = x]
              /\ x = "Running" => kind = "cloud" /\ broken,
         cut' # {} => cut # {} \/ Catches(kind),
         faults' \in Nat, faults' >= faults, broken' => broken \/ faults' > faults
  PROVE  BrokenInv' /\ CompletedIsWhole' /\ StrandedOnlyByRefusal'
<1> USE DEF IInv, TypeInv
<1>1. BrokenInv'
  BY DEF BrokenInv
<1>2. \A n \in 1 .. 2 : \/ outcome'[n] = outcome[n]
                        \/ /\ outcome[n] = "none" /\ outcome'[n] \in {"Failed", "Running"}
                           /\ outcome'[n] = "Running" => kind = "cloud" /\ broken
  BY DEF Parsing
<1>3. StrandedOnlyByRefusal'
  BY <1>2 DEF StrandedOnlyByRefusal, BrokenInv
<1>4. ~(outcome'[1] = "Completed" /\ round = 1)
  BY <1>2 DEF Parsing
<1>5. cut' # {} => kind \in {"cloud", "mobile"}
  BY DEF CompletedIsWhole, Catches
<1>6. rows # {} => \E n \in 1 .. 2 : outcome'[n] = "Completed"
  <2> SUFFICES ASSUME rows # {} PROVE \E n \in 1 .. 2 : outcome'[n] = "Completed"
      OBVIOUS
  <2>1. PICK n \in 1 .. 2 : outcome[n] = "Completed"
    BY DEF CompletedIsWhole
  <2> QED
    BY <1>2, <2>1
<1> QED
  BY <1>1, <1>3, <1>4, <1>5, <1>6 DEF CompletedIsWhole
-----------------------------------------------------------------------------
(* Nothing is parsed at first. *)
LEMMA InitIInv == Init => IInv
<1> SUFFICES ASSUME Init PROVE IInv
    OBVIOUS
<1> USE DEF Init
<1>1. outcome[1] = "none" /\ outcome[2] = "none" /\ faults = 0 /\ mine = {} /\ rows = {} /\ cut = {}
  OBVIOUS
<1>2. TypeInv
  BY ToolsDiffer DEF TypeInv, AtTool, Tool
<1>3. \A t \in Range(Run) \ cut : Keys(mine, t) = Names(t, said[t])
  <2> SUFFICES ASSUME NEW t \in Range(Run) PROVE Keys(mine, t) = Names(t, said[t])
      OBVIOUS
  <2>1. said[t] = {}
    BY <1>2, RunTools
  <2> QED
    BY <2>1 DEF Keys, Names
<1>4. AtTool => done = said[Tool]
  BY <1>2, ToolType
<1>5. \A i \in DOMAIN Run : said[Run[i]] = {}
  BY <1>2, RunTools
<1>6. FirstInv
  BY <1>1, <1>3, <1>4, <1>5, Zenon DEF FirstInv
<1> QED
  BY <1>1, <1>2, <1>6 DEF IInv, SecondInv, BrokenInv, CompletedIsWhole, StrandedOnlyByRefusal

(* A report that cannot be read, or that is read to its end. *)
LEMMA ReportIInv ==
  ASSUME IInv, Unreadable \/ EndReport
  PROVE  IInv'
<1> USE DEF IInv
<1>1. /\ AtTool /\ Parsing /\ NextTool
      /\ UNCHANGED <<kind, round, mine, broken, said, rows, outcome, cut, faults>>
      /\ missed => missed'
  <2>1. CASE Unreadable
    BY <2>1, Zenon DEF Unreadable, AtTool
  <2>2. CASE EndReport
    BY <2>2, Zenon DEF EndReport, AtTool
  <2> QED
    BY <2>1, <2>2, Zenon
<1>2. TypeInv'
  BY <1>1, NextToolType DEF TypeInv
<1>3. FirstInv'
  <2>1. CASE round = 1
    BY <1>1, <2>1, NextToolFirst
  <2>2. CASE round # 1
    BY <1>1, <2>2 DEF FirstInv
  <2> QED
    BY <2>1, <2>2
<1>4. SecondInv'
  BY <1>1, SecondKept
<1>5. BrokenInv' /\ CompletedIsWhole' /\ StrandedOnlyByRefusal'
  BY <1>1, StepKept DEF TypeInv
<1> QED
  BY <1>2, <1>3, <1>4, <1>5

(* An entry that gives no finding. *)
LEMMA SkippedIInv ==
  ASSUME IInv, NEW i \in Unread, Skipped(i)
  PROVE  IInv'
<1> USE DEF IInv
<1>1. /\ ReadEntry(i) /\ Parse(Tool, i, done).out = "skip" /\ done' = done \cup {i}
      /\ UNCHANGED <<kind, round, at, mine, broken, rows, outcome, cut, missed, faults>>
  BY DEF Skipped
<1>2. /\ AtTool /\ said' \in [Tools -> SUBSET Shape] /\ i \in said'[Tool]
      /\ said[Tool] \subseteq said'[Tool] /\ (round = 2 => said' = said)
  BY <1>1, ReadEffect
<1>3. TypeInv'
  BY <1>1, <1>2 DEF TypeInv, AtTool, Parsing, Tool
<1>4. FirstInv'
  <2>1. CASE round = 1
    <3>1. Parse(Tool, i, done).out # "find"
      BY <1>1, Zenon
    <3>2. Keys(mine', Tool) = Keys(mine, Tool) \cup
           (IF Parse(Tool, i, done).out = "find" THEN {Parse(Tool, i, done).key} ELSE {})
      BY <1>1, <3>1
    <3> QED
      BY <1>1, <2>1, <3>2, EntryFirst
  <2>2. CASE round # 1
    BY <1>1, <2>2 DEF FirstInv
  <2> QED
    BY <2>1, <2>2
<1>5. SecondInv'
  BY <1>1, <1>2, SecondKept DEF AtTool
<1>6. BrokenInv' /\ CompletedIsWhole' /\ StrandedOnlyByRefusal'
  BY <1>1, <1>2, StepKept DEF TypeInv, AtTool
<1> QED
  BY <1>3, <1>4, <1>5, <1>6

(* An exception: the report is cut where that is caught, else the scan has *)
(* failed.                                                                 *)
LEMMA ToolErrorIInv ==
  ASSUME IInv, NEW i \in Unread, ReadEntry(i), ToolError,
         UNCHANGED <<kind, round, rows, missed>>,
         faults' \in Nat, faults' >= faults, broken' => broken \/ faults' > faults
  PROVE  IInv'
<1> USE DEF IInv
<1>1. /\ AtTool /\ Parsing /\ said' \in [Tools -> SUBSET Shape]
      /\ said[Tool] \subseteq said'[Tool] /\ (round = 2 => said' = said)
      /\ round = 1 => \A t \in Tools \ {Tool} : said'[t] = said[t]
  BY ReadEffect DEF AtTool
<1>2. CASE Catches(kind)
  <2>1. cut' = cut \cup {Tool} /\ NextTool /\ UNCHANGED <<mine, outcome>>
    BY <1>2 DEF ToolError
  <2>2. TypeInv'
    BY <1>1, <2>1 DEF TypeInv, AtTool, NextTool
  <2>3. FirstInv'
    <3>1. CASE round = 1
      BY <1>1, <2>1, <3>1, NextToolFirst
    <3>2. CASE round # 1
      BY <3>2 DEF FirstInv
    <3> QED
      BY <3>1, <3>2
  <2>4. SecondInv'
    BY <1>1, <2>1, SecondKept
  <2>5. BrokenInv' /\ CompletedIsWhole' /\ StrandedOnlyByRefusal'
    BY <1>1, <1>2, <2>1, StepKept
  <2> QED
    BY <2>2, <2>3, <2>4, <2>5
<1>3. CASE ~Catches(kind)
  <2>1. /\ outcome' = [outcome EXCEPT ![round] = "Failed"]
        /\ UNCHANGED <<at, done, mine, cut>>
    BY <1>3 DEF ToolError, Fails
  <2>2. FirstInv' /\ ~Parsing'
    BY <1>1, <2>1, OverFirst
  <2>3. TypeInv'
    <3>1. outcome' \in [1 .. 2 -> {"none", "Completed", "Failed", "Running"}]
      BY <2>1 DEF TypeInv
    <3> QED
      BY <1>1, <2>1, <2>2, <3>1 DEF TypeInv, AtTool
  <2>4. SecondInv'
    BY <1>1, <2>1, SecondKept
  <2>5. BrokenInv' /\ CompletedIsWhole' /\ StrandedOnlyByRefusal'
    BY <1>1, <2>1, StepKept
  <2> QED
    BY <2>2, <2>3, <2>4, <2>5
<1> QED
  BY <1>2, <1>3

(* A finding of the first scan joins those of its tool, unless it is there.*)
LEMMA UpsertKeys ==
  ASSUME rows = {}, NEW i, NEW t, t = Tool,
         mine' = IF Known(Finding(i)) THEN mine ELSE mine \cup {Finding(i)}
  PROVE  /\ Keys(mine', t) = Keys(mine, t) \cup {Parse(t, i, done).key}
         /\ \A u : u # t => Keys(mine', u) = Keys(mine, u)
<1> DEFINE key == Parse(t, i, done).key
           sev == Parse(t, i, done).severity
<1>1. Finding(i) = [tool |-> t, key |-> key, severity |-> sev]
  BY DEF Finding
<1> HIDE DEF key, sev
<1>2. Finding(i).tool = t /\ Finding(i).key = key
  BY <1>1
<1>3. CASE Known(Finding(i))
  <2>1. \E r \in mine : r.tool = t /\ r.key = key
    BY <1>2, <1>3 DEF Known
  <2>2. key \in Keys(mine, t)
    BY <2>1 DEF Keys
  <2> QED
    BY <1>3, <2>2 DEF key
<1>4. CASE ~Known(Finding(i))
  <2>1. mine' = mine \cup {Finding(i)}
    BY <1>4
  <2>2. Keys(mine', t) = Keys(mine, t) \cup {key}
    BY <1>2, <2>1 DEF Keys
  <2>3. ASSUME NEW u, u # t PROVE Keys(mine', u) = Keys(mine, u)
    BY <1>2, <2>1, <2>3 DEF Keys
  <2> QED
    BY <2>2, <2>3 DEF key
<1> QED
  BY <1>3, <1>4

(* A finding of the second scan is on record, or an alert of ZAP that has  *)
(* several instances.                                                      *)
LEMMA UpsertAgain ==
  ASSUME TypeInv, AtTool, round = 2, NEW i \in Unread, NEW v \in Variants(i),
         Parse(Tool, v, done).out = "find",
         \A t \in Range(Run) : Names(t, said[t]) \subseteq RowsOf(t)
  PROVE  Known(Finding(v)) \/ Reordered(Finding(v))
<1>1. PICK t : t = Tool
  OBVIOUS
<1>2. /\ t \in Tools /\ t \in Range(Run) /\ i \in said[t] /\ i \in Shape
      /\ done \in SUBSET said[t] /\ InOrder(i)
  BY <1>1, ToolType DEF Unread, TypeInv
<1>3. Finding(v).tool = t /\ Finding(v).key = Parse(t, v, done).key
  BY <1>1 DEF Finding
<1>4. CASE v = i
  <2>1. t = "SQLmap" /\ i.section = "log" => SameHost(said[t] \ done, "xml", i) = {}
    BY <1>1, <1>2, OrderKept
  <2>2. Parse(t, i, done) = Parse(t, i, said[t])
    BY <1>2, <2>1, ParseAgain
  <2>3. Parse(t, i, said[t]).out = "find"
    BY <1>1, <1>4, <2>2, Zenon
  <2>4. Parse(t, i, said[t]).key \in Names(t, said[t])
    BY <1>2, <2>3 DEF Names
  <2>5. Finding(v).key \in RowsOf(t)
    BY <1>2, <1>3, <1>4, <2>2, <2>4, Zenon
  <2>6. \E r \in rows : r.tool = t /\ r.key = Finding(v).key
    BY <2>5 DEF RowsOf
  <2> QED
    BY <1>3, <2>6 DEF Known
<1>5. CASE v # i
  <2>1. /\ Tool = "ZAP" /\ i.line # ""
        /\ v = [i EXCEPT !.place = i.line, !.line = i.place]
    BY <1>5 DEF Variants
  <2>2. v.what = i.what
    BY <1>2, <2>1 DEF Shape
  <2>3. Parse("ZAP", v, done).key[1] = v.what
    BY <2>1, ZapKey, Zenon
  <2>4. Finding(v).tool = "ZAP" /\ Finding(v).key[1] = i.what /\ i \in said["ZAP"]
    BY <1>1, <1>2, <1>3, <2>1, <2>2, <2>3, Zenon
  <2> QED
    BY <2>1, <2>4 DEF Reordered
<1> QED
  BY <1>4, <1>5

(* An entry that gives a finding. *)
LEMMA UpsertIInv ==
  ASSUME IInv, NEW i \in Unread, Upsert(i)
  PROVE  IInv'
<1> USE DEF IInv
<1>1. /\ ReadEntry(i) /\ done' = done \cup {i}
      /\ UNCHANGED <<kind, round, at, broken, rows, outcome, cut, missed, faults>>
  BY DEF Upsert
<1>2. PICK v \in (IF round = 1 THEN {i} ELSE Variants(i)) :
        /\ Parse(Tool, v, done).out = "find"
        /\ mine' = IF Known(Finding(v)) THEN mine ELSE mine \cup {Finding(v)}
  BY DEF Upsert
<1>3. /\ AtTool /\ Parsing /\ said' \in [Tools -> SUBSET Shape] /\ i \in said'[Tool]
      /\ said[Tool] \subseteq said'[Tool] /\ (round = 2 => said' = said)
  BY <1>1, ReadEffect DEF AtTool
<1>4. TypeInv'
  BY <1>1, <1>3 DEF TypeInv, AtTool, Parsing, Tool
<1>5. FirstInv'
  <2>1. CASE round = 1
    <3>1. v = i /\ rows = {}
      BY <1>2, <1>3, <2>1 DEF FirstInv
    <3>2. /\ Keys(mine', Tool) = Keys(mine, Tool) \cup {Parse(Tool, i, done).key}
          /\ \A u : u # Tool => Keys(mine', u) = Keys(mine, u)
      BY <1>2, <3>1, UpsertKeys, Zenon
    <3>3. Parse(Tool, i, done).out = "find"
      BY <1>2, <3>1, Zenon
    <3>4. Keys(mine', Tool) = Keys(mine, Tool) \cup
           (IF Parse(Tool, i, done).out = "find" THEN {Parse(Tool, i, done).key} ELSE {})
      BY <3>2, <3>3, Zenon
    <3> QED
      BY <1>1, <2>1, <3>2, <3>4, EntryFirst
  <2>2. CASE round # 1
    BY <1>1, <2>2 DEF FirstInv
  <2> QED
    BY <2>1, <2>2
<1>6. SecondInv'
  <2> SUFFICES ASSUME round = 2, outcome[1] = "Completed", ~missed
               PROVE  SecondInv'
      BY <1>1, Zenon DEF SecondInv
  <2>1. /\ \A t \in Range(Run) : Names(t, said[t]) \subseteq RowsOf(t)
        /\ \A f \in mine : Reordered(f)
    BY DEF SecondInv
  <2>2. v \in Variants(i)
    BY <1>2
  <2>3. Known(Finding(v)) \/ Reordered(Finding(v))
    BY <1>2, <1>3, <2>1, <2>2, UpsertAgain
  <2>4. \A f \in mine' : Reordered(f)
    BY <1>2, <2>1, <2>3
  <2>5. Run' = Run /\ said' = said /\ rows' = rows
    BY <1>1, <1>3 DEF Run
  <2>6. \A t : RowsOf(t)' = RowsOf(t)
    BY <2>5 DEF RowsOf
  <2>7. \A f \in mine' : Reordered(f)'
    BY <2>4, <2>5 DEF Reordered
  <2> QED
    BY <2>1, <2>5, <2>6, <2>7 DEF SecondInv
<1>7. BrokenInv' /\ CompletedIsWhole' /\ StrandedOnlyByRefusal'
  BY <1>1, <1>3, StepKept DEF TypeInv
<1> QED
  BY <1>4, <1>5, <1>6, <1>7

(* The end of a parse: what the session holds goes on record. *)
LEMMA CommitIInv ==
  ASSUME IInv, Commit
  PROVE  IInv'
<1> USE DEF IInv
<1>1. /\ Parsing /\ ~broken /\ rows' = rows \cup mine
      /\ outcome' = [outcome EXCEPT ![round] = "Completed"]
      /\ UNCHANGED <<kind, round, progress, said, cut, missed, faults>>
  BY DEF Commit, Parsed
<1>2. UNCHANGED <<kind, round, at, done, mine, broken, said, cut, missed, faults>>
  BY <1>1 DEF progress
<1>3. FirstInv' /\ ~Parsing'
  BY <1>1, <1>2, OverFirst
<1>4. TypeInv'
  <2>1. outcome' \in [1 .. 2 -> {"none", "Completed", "Failed", "Running"}]
    BY <1>1 DEF TypeInv
  <2> QED
    BY <1>2, <1>3, <2>1 DEF TypeInv, AtTool
<1>5. outcome'[round] = "Completed" /\ \A n \in 1 .. 2 : n # round => outcome'[n] = outcome[n]
  BY <1>1 DEF TypeInv
<1>6. Run' = Run
  BY <1>2 DEF Run
<1>7. SecondInv'
  <2> SUFFICES ASSUME round = 2, outcome'[1] = "Completed", ~missed
               PROVE  /\ \A t \in Range(Run) : Names(t, said[t]) \subseteq RowsOf(t)'
                      /\ \A f \in mine : Reordered(f)'
      BY <1>2, <1>6, Zenon DEF SecondInv
  <2>1. outcome[1] = "Completed"
    BY <1>5
  <2>2. /\ \A t \in Range(Run) : Names(t, said[t]) \subseteq RowsOf(t)
        /\ \A f \in mine : Reordered(f)
    BY <2>1 DEF SecondInv
  <2>3. \A t : RowsOf(t) \subseteq RowsOf(t)'
    BY <1>1 DEF RowsOf
  <2>4. \A f \in mine : Reordered(f)'
    BY <1>2, <2>2 DEF Reordered
  <2> QED
    BY <2>2, <2>3, <2>4
<1>8. CompletedIsWhole'
  <2>1. cut # {} => kind \in {"cloud", "mobile"}
    BY DEF CompletedIsWhole
  <2>2. \E n \in 1 .. 2 : outcome'[n] = "Completed"
    BY <1>5 DEF TypeInv
  <2>3. ASSUME round = 1, NEW t \in Range(Run) \ cut PROVE Names(t, said[t]) = RowsOf(t)'
    <3>1. rows' = mine /\ Keys(mine, t) = Names(t, said[t])
      BY <1>1, <2>3 DEF FirstInv
    <3> QED
      BY <3>1 DEF RowsOf, Keys
  <2> QED
    BY <1>2, <2>1, <2>2, <2>3 DEF CompletedIsWhole, Run
<1>9. StrandedOnlyByRefusal'
  BY <1>2, <1>5 DEF StrandedOnlyByRefusal
<1>10. BrokenInv'
  BY <1>2 DEF BrokenInv
<1> QED
  BY <1>3, <1>4, <1>7, <1>8, <1>9, <1>10

(* A parse that ends in a session the database has refused. *)
LEMMA CommitBrokenIInv ==
  ASSUME IInv, CommitBroken
  PROVE  IInv'
<1> USE DEF IInv
<1>1. /\ Parsing /\ broken
      /\ UNCHANGED <<kind, round, at, done, mine, broken, said, rows, cut, missed, faults>>
  BY DEF CommitBroken, Parsed, progress
<1>2. PICK x \in {"Failed", "Running"} :
        /\ outcome' = [outcome EXCEPT ![round] = x]
        /\ x = "Running" => kind = "cloud"
  BY DEF CommitBroken, OnRaise
<1>3. FirstInv' /\ ~Parsing'
  BY <1>1, <1>2, OverFirst
<1>4. TypeInv'
  <2>1. outcome' \in [1 .. 2 -> {"none", "Completed", "Failed", "Running"}]
    BY <1>2 DEF TypeInv
  <2> QED
    BY <1>1, <1>3, <2>1 DEF TypeInv, AtTool
<1>5. SecondInv'
  BY <1>1, <1>2, SecondKept
<1>6. BrokenInv' /\ CompletedIsWhole' /\ StrandedOnlyByRefusal'
  <2>1. faults' \in Nat /\ faults' >= faults
    BY <1>1 DEF TypeInv
  <2>2. \E y \in {"Failed", "Running"} :
          /\ outcome' = [outcome EXCEPT ![round] = y]
          /\ y = "Running" => kind = "cloud" /\ broken
    BY <1>1, <1>2
  <2> QED
    BY <1>1, <2>1, <2>2, StepKept
<1> QED
  BY <1>3, <1>4, <1>5, <1>6

(* The target is scanned again: what a whole first scan named is on record.*)
LEMMA RescanIInv ==
  ASSUME IInv, Rescan
  PROVE  IInv'
<1> USE DEF IInv, Rescan
<1>1. round = 1 /\ round' = 2 /\ Run' = Run /\ mine' = {} /\ done' = {} /\ cut' = {}
  BY DEF Run
<1>2. TypeInv'
  BY DEF TypeInv
<1>3. FirstInv' /\ BrokenInv'
  BY <1>1 DEF FirstInv, BrokenInv
<1>4. SecondInv'
  <2> SUFFICES ASSUME outcome[1] = "Completed", ~missed'
               PROVE  \A t \in Range(Run) : Names(t, said[t]) \subseteq RowsOf(t)'
      BY <1>1, Zenon DEF SecondInv
  <2>1. cut = {}
    OBVIOUS
  <2>2. \A t \in Range(Run) : Names(t, said[t]) = RowsOf(t)
    BY <1>1, <2>1 DEF CompletedIsWhole, Run
  <2> QED
    BY <2>2 DEF RowsOf
<1>5. CompletedIsWhole'
  BY <1>1 DEF CompletedIsWhole
<1>6. StrandedOnlyByRefusal'
  BY DEF StrandedOnlyByRefusal
<1> QED
  BY <1>2, <1>3, <1>4, <1>5, <1>6

(* Every step preserves the inductive invariant. *)
LEMMA NextIInv == IInv /\ [Next]_vars => IInv'
<1> SUFFICES ASSUME IInv, [Next]_vars PROVE IInv'
    OBVIOUS
<1>1. CASE Unreadable \/ EndReport
  BY <1>1, ReportIInv
<1>2. ASSUME NEW i \in Unread, Skipped(i) PROVE IInv'
  BY <1>2, SkippedIInv
<1>3. ASSUME NEW i \in Unread, ParserRaises(i) PROVE IInv'
  <2>1. /\ ReadEntry(i) /\ ToolError
        /\ UNCHANGED <<kind, round, broken, rows, missed, faults>>
    BY <1>3 DEF ParserRaises
  <2> QED
    BY <2>1, ToolErrorIInv DEF IInv, TypeInv
<1>4. ASSUME NEW i \in Unread, Upsert(i) PROVE IInv'
  BY <1>4, UpsertIInv
<1>5. ASSUME NEW i \in Unread, LookupRaises(i) PROVE IInv'
  <2>1. /\ ReadEntry(i) /\ ToolError /\ faults' \in {faults, faults + 1}
        /\ UNCHANGED <<kind, round, broken, rows, missed>>
    BY <1>5 DEF LookupRaises
  <2> QED
    BY <2>1, ToolErrorIInv DEF IInv, TypeInv
<1>6. ASSUME NEW i \in Unread, WriteRefused(i) PROVE IInv'
  <2>1. /\ ReadEntry(i) /\ ToolError /\ faults' = faults + 1
        /\ UNCHANGED <<kind, round, rows, missed>>
    BY <1>6 DEF WriteRefused
  <2> QED
    BY <2>1, ToolErrorIInv DEF IInv, TypeInv
<1>7. CASE Commit \/ CommitBroken \/ Rescan
  BY <1>7, CommitIInv, CommitBrokenIInv, RescanIInv
<1>8. CASE UNCHANGED vars
  <2>1. /\ UNCHANGED <<kind, round, at, done, mine, broken, said, rows, outcome, cut, missed, faults>>
        /\ Run' = Run /\ Tool' = Tool /\ (AtTool' <=> AtTool) /\ (Parsing' <=> Parsing)
    BY <1>8 DEF vars, progress, Run, Tool, AtTool, Parsing
  <2>2. TypeInv' /\ FirstInv' /\ BrokenInv' /\ StrandedOnlyByRefusal'
    BY <2>1 DEF IInv, TypeInv, FirstInv, BrokenInv, StrandedOnlyByRefusal
  <2>3. \A t : RowsOf(t)' = RowsOf(t)
    BY <2>1 DEF RowsOf
  <2>4. \A f : Reordered(f)' <=> Reordered(f)
    BY <2>1 DEF Reordered
  <2>5. SecondInv' /\ CompletedIsWhole'
    BY <2>1, <2>3, <2>4 DEF IInv, SecondInv, CompletedIsWhole, Run
  <2> QED
    BY <2>2, <2>5 DEF IInv
<1> QED
  BY <1>1, <1>2, <1>3, <1>4, <1>5, <1>6, <1>7, <1>8 DEF Next

(* The inductive invariant holds in every reachable state. *)
LEMMA Invariance == Spec => []IInv
<1> QED
  BY InitIInv, NextIInv, PTL DEF Spec
-----------------------------------------------------------------------------
(* Types, for any entries and bounds. *)
THEOREM TypeCorrect == Spec => []TypeInv
<1>1. IInv => TypeInv
  BY DEF IInv
<1> QED
  BY <1>1, Invariance, PTL

(* A scan that completed has on record what its reports name, no less and  *)
(* no more, for every tool whose report was not cut by an exception.       *)
THEOREM CompletedScansAreWhole == Spec => []CompletedIsWhole
<1>1. IInv => CompletedIsWhole
  BY DEF IInv
<1> QED
  BY <1>1, Invariance, PTL

(* Only a refused write strands a scan in Running, and only a cloud scan.  *)
THEOREM OnlyRefusalStrands == Spec => []StrandedOnlyByRefusal
<1>1. IInv => StrandedOnlyByRefusal
  BY DEF IInv
<1> QED
  BY <1>1, Invariance, PTL

(* Only a commit adds findings, and only those the session holds. *)
LEMMA OnlyCommitAdds ==
  ASSUME [Next]_vars
  PROVE  rows' \subseteq rows \cup mine
<1>1. ASSUME NEW i \in Unread,
             Skipped(i) \/ ParserRaises(i) \/ Upsert(i) \/ LookupRaises(i) \/ WriteRefused(i)
      PROVE  rows' = rows
  BY <1>1 DEF Skipped, ParserRaises, Upsert, LookupRaises, WriteRefused
<1>2. Unreadable \/ EndReport \/ CommitBroken \/ Rescan \/ UNCHANGED vars => rows' = rows
  BY DEF Unreadable, EndReport, CommitBroken, Rescan, vars
<1>3. Commit => rows' = rows \cup mine
  BY DEF Commit
<1> QED
  BY <1>1, <1>2, <1>3 DEF Next

(* Scanning an unchanged target again, in whatever order its issues are    *)
(* reported, adds nothing but an alert of ZAP with several instances.      *)
THEOREM RescanIsIdempotent == Spec => RescanAddsNothing
<1>1. IInv /\ [Next]_vars => [RescanStep]_vars
  <2> SUFFICES ASSUME IInv, [Next]_vars PROVE RescanStep
      OBVIOUS
  <2> SUFFICES ASSUME round = 2, outcome[1] = "Completed", ~missed, NEW f \in rows' \ rows
               PROVE  Reordered(f)
      BY DEF RescanStep, Reordered
  <2>1. f \in mine
    BY OnlyCommitAdds
  <2> QED
    BY <2>1 DEF IInv, SecondInv
<1> QED
  BY <1>1, Invariance, PTL DEF Spec, RescanAddsNothing
-----------------------------------------------------------------------------
(* A hash has one row: what is on record or in the session differs.        *)
OneEach == \A f, g \in rows \cup mine : f.tool = g.tool /\ f.key = g.key => f = g

Grader   == {"Nuclei", "Semgrep", "Trivy", "Hadolint"}
Word(w)  == w = "" \/ w \in DOMAIN SevMap

(* A level outside the five comes from a word that norm_sev's map lacks.   *)
Graded(f, reports) ==
    \/ f.severity \in Severities
    \/ f.tool \in Grader /\ \E i \in reports[f.tool] : ~Word(i.word)

SaidInv  == \A t \in Tools : said[t] \subseteq Entries[t]
GradeInv == \A f \in rows \cup mine : Graded(f, said)

OnRecordInv == OneEach /\ SaidInv /\ GradeInv

(* The maps of the parsers lead to the five levels. *)
LEMMA LookupLevel ==
  ASSUME NEW map, NEW word, NEW default \in Severities,
         \A w \in DOMAIN map : map[w] \in Severities
  PROVE  Lookup(map, word, default) \in Severities
BY DEF Lookup

LEMMA NormSevLevel ==
  ASSUME NEW word, Word(word)
  PROVE  NormSev(word) \in Severities
<1>1. \A w \in DOMAIN SevMap : SevMap[w] \in Severities
  BY DEF SevMap, Severities
<1>2. "Info" \in Severities
  BY DEF Severities
<1>3. "" \notin DOMAIN SevMap /\ "" \notin DOMAIN Capitalized
      /\ \A w \in DOMAIN Capitalized : w \notin DOMAIN SevMap
  BY DEF SevMap, Capitalized
<1>4. CASE word = ""
  <2>1. NormSev(word) = "Info"
    BY <1>3, <1>4, Zenon DEF NormSev
  <2> QED
    BY <1>2, <2>1
<1>5. CASE word \in DOMAIN SevMap
  <2>1. word # "" /\ word \notin DOMAIN Capitalized
    BY <1>3, <1>5
  <2>2. NormSev(word) = SevMap[word]
    BY <1>5, <2>1, Zenon DEF NormSev
  <2> QED
    BY <1>1, <1>5, <2>2
<1> QED
  BY <1>4, <1>5 DEF Word

Level(res) == res.out = "find" => res.severity \in Severities

LEMMA FoundLevel ==
  /\ Level(Skip) /\ Level(Raise)
  /\ \A s \in Severities : \A name, place, line : Level(Found(s, name, place, line))
BY DEF Level, Skip, Raise, Found

(* Parsers that grade with norm_sev. *)
LEMMA GraderLevel ==
  ASSUME NEW i, Word(i.word)
  PROVE  /\ Level(Nuclei(i)) /\ Level(Semgrep(i)) /\ Level(Hadolint(i))
         /\ i.section \in {"Vulnerabilities", "Secrets", "Misconfigurations"} => Level(Trivy(i))
<1>1. NormSev(i.word) \in Severities /\ "Critical" \in Severities
  BY NormSevLevel DEF Severities
<1>2. Level(Nuclei(i)) /\ Level(Semgrep(i)) /\ Level(Hadolint(i))
  BY <1>1, FoundLevel DEF Nuclei, BadLine, Semgrep, Hadolint
<1>3. Level(TrivyVulnerability(i)) /\ Level(TrivySecret(i)) /\ Level(TrivyMisconfiguration(i))
  BY <1>1, FoundLevel DEF TrivyVulnerability, TrivySecret, TrivyMisconfiguration
<1>4. i.section \in {"Vulnerabilities", "Secrets", "Misconfigurations"} =>
        Trivy(i) \in {TrivyVulnerability(i), TrivySecret(i), TrivyMisconfiguration(i)}
  BY Zenon DEF Trivy
<1> QED
  BY <1>2, <1>3, <1>4

(* Parsers with maps or levels of their own. *)
LEMMA OwnLevel ==
  ASSUME NEW i \in Shape, NEW S
  PROVE  /\ Level(Katana(i)) /\ Level(Ffuf(i)) /\ Level(Zap(i)) /\ Level(Testssl(i))
         /\ Level(Sqlmap(i, S)) /\ Level(Gitleaks(i)) /\ Level(Nmap(i))
         /\ Level(Scoutsuite(i)) /\ Level(Prowler(i))
         /\ i.form # "garbled"
              /\ (i.form = "sound" => i.section \in {"findings", "permissions", "network"})
              => Level(Mobsf(i))
<1>0. /\ "Critical" \in Severities /\ "High" \in Severities /\ "Medium" \in Severities
      /\ "Low" \in Severities /\ "Info" \in Severities
  BY DEF Severities
<1>1. Level(Katana(i)) /\ Level(Sqlmap(i, S)) /\ Level(Gitleaks(i))
  BY <1>0, FoundLevel DEF Katana, BadLine, Sqlmap, Gitleaks
<1>2. Level(Ffuf(i))
  <2>1. Ffuf(i) \in {Skip, Found("Info", i.what, i.place, ""), Raise}
    BY Zenon DEF Ffuf
  <2> QED
    BY <1>0, <2>1, FoundLevel
<1>3. Level(Zap(i))
  <2>1. ZapRisk(i.word) \in {"High", "Medium", "Low", "Info"}
    BY Zenon DEF ZapRisk
  <2> QED
    BY <1>0, <2>1, FoundLevel DEF Zap
<1>4. Level(Testssl(i))
  <2> DEFINE map == [CRITICAL |-> "Critical", HIGH |-> "High",
                     MEDIUM |-> "Medium", LOW |-> "Low"]
  <2>1. Lookup(map, i.word, "Medium") \in Severities
    BY <1>0, LookupLevel
  <2>2. Testssl(i) \in {Skip, Raise, Found(Lookup(map, i.word, "Medium"), i.what, i.place, "")}
    BY Zenon DEF Testssl
  <2> QED
    BY <2>1, <2>2, FoundLevel
<1>5. Level(Nmap(i))
  <2> DEFINE map == [vuln |-> "High", ssl |-> "Medium"]
  <2>1. Lookup(map, i.what, "Info") \in Severities
    BY <1>0, LookupLevel
  <2> QED
    BY <1>0, <2>1, FoundLevel DEF Nmap, NmapPort, NmapScript
<1>6. Level(Scoutsuite(i))
  <2> DEFINE s == IF i.word = "danger" THEN "High" ELSE "Medium"
  <2>1. Scoutsuite(i) \in {Skip, Raise, Found(s, i.what, i.place, "")}
    BY Zenon DEF Scoutsuite
  <2> QED
    BY <1>0, <2>1, FoundLevel
<1>7. Level(Prowler(i))
  <2> DEFINE map == [critical |-> "Critical", high |-> "High", medium |-> "Medium",
                     low |-> "Low", informational |-> "Info"]
  <2>1. Lookup(map, i.word, "Medium") \in Severities
    BY <1>0, LookupLevel
  <2>2. Prowler(i) \in {Skip, Raise, Found(Lookup(map, i.word, "Medium"), i.what, i.place, "")}
    BY Zenon DEF Prowler
  <2> QED
    BY <2>1, <2>2, FoundLevel
<1>8. ASSUME i.form # "garbled",
             i.form = "sound" => i.section \in {"findings", "permissions", "network"}
      PROVE  Level(Mobsf(i))
  <2>1. Lookup([critical |-> "Critical", high |-> "High", low |-> "Low"], i.word, "Medium")
          \in Severities
    BY <1>0, LookupLevel
  <2>2. Lookup([high |-> "High", low |-> "Low"], i.word, "Medium") \in Severities
    BY <1>0, LookupLevel
  <2>3. Level(MobsfCode(i)) /\ Level(MobsfPermission(i)) /\ Level(MobsfNetwork(i))
    BY <1>0, <2>1, <2>2, FoundLevel DEF MobsfCode, MobsfPermission, MobsfNetwork
  <2>4. i.form \in {"sound", "alien", "null"}
    BY <1>8 DEF Shape, Forms
  <2>5. Mobsf(i) \in {Skip, Raise, MobsfCode(i), MobsfPermission(i), MobsfNetwork(i)}
    BY <1>8, <2>4, Zenon DEF Mobsf
  <2> QED
    BY <2>3, <2>5, FoundLevel
<1> QED
  BY <1>1, <1>2, <1>3, <1>4, <1>5, <1>6, <1>7, <1>8

(* Any tool but the four gives one of the five levels, whatever it says.   *)
LEMMA ParseLevel ==
  ASSUME NEW t \in Tools, NEW i \in Entries[t], NEW S, t \in Grader => Word(i.word)
  PROVE  Level(Parse(t, i, S))
<1>0. /\ i \in Shape
      /\ t = "Trivy" => i.section \in {"Vulnerabilities", "Secrets", "Misconfigurations"}
      /\ t = "MobSF" /\ i.form = "sound" => i.section \in {"findings", "permissions", "network"}
      /\ t = "MobSF" => i.form # "garbled"
  BY ParseReportsAssumption DEF Piecewise
<1>1. CASE t \in Grader
  <2>1. Parse("Nuclei", i, S) = Nuclei(i) /\ Parse("Semgrep", i, S) = Semgrep(i)
        /\ Parse("Hadolint", i, S) = Hadolint(i) /\ Parse("Trivy", i, S) = Trivy(i)
    BY DEF Parse
  <2> QED
    BY <1>0, <1>1, <2>1, GraderLevel DEF Grader
<1>2. CASE t \notin Grader
  <2>1. /\ Parse("Katana", i, S) = Katana(i) /\ Parse("Ffuf", i, S) = Ffuf(i)
        /\ Parse("ZAP", i, S) = Zap(i) /\ Parse("Testssl", i, S) = Testssl(i)
        /\ Parse("SQLmap", i, S) = Sqlmap(i, S) /\ Parse("Gitleaks", i, S) = Gitleaks(i)
        /\ Parse("Nmap", i, S) = Nmap(i) /\ Parse("ScoutSuite", i, S) = Scoutsuite(i)
        /\ Parse("Prowler", i, S) = Prowler(i) /\ Parse("MobSF", i, S) = Mobsf(i)
    BY DEF Parse
  <2> QED
    BY <1>0, <1>2, <2>1, ToolNames, OwnLevel DEF Grader
<1> QED
  BY <1>1, <1>2

(* What a step may read, and that it forgets nothing it has read. *)
LEMMA SaidGrows ==
  ASSUME TypeInv, SaidInv, [Next]_vars
  PROVE  SaidInv' /\ \A t \in Tools : said[t] \subseteq said'[t]
<1>1. ASSUME NEW i \in Unread, ReadEntry(i)
      PROVE  SaidInv' /\ \A t \in Tools : said[t] \subseteq said'[t]
  <2>1. Tool \in Tools /\ (round = 1 => i \in Entries[Tool]) /\ round \in {1, 2}
    BY <1>1, ToolType DEF Unread, TypeInv
  <2> QED
    BY <1>1, <2>1, ReadEffect DEF SaidInv
<1>2. ASSUME NEW i \in Unread,
             Skipped(i) \/ ParserRaises(i) \/ Upsert(i) \/ LookupRaises(i) \/ WriteRefused(i)
      PROVE  ReadEntry(i)
  BY <1>2 DEF Skipped, ParserRaises, Upsert, LookupRaises, WriteRefused
<1>3. Unreadable \/ EndReport \/ Commit \/ CommitBroken \/ Rescan \/ UNCHANGED vars
        => said' = said
  BY DEF Unreadable, EndReport, Commit, CommitBroken, Rescan, vars
<1> QED
  BY <1>1, <1>2, <1>3 DEF Next, SaidInv

(* Only an upsert adds a finding, and only one whose hash is not there.    *)
LEMMA RecordKept ==
  ASSUME IInv, OnRecordInv, [Next]_vars, rows' \cup mine' \subseteq rows \cup mine
  PROVE  OnRecordInv'
<1>1. SaidInv' /\ \A t \in Tools : said[t] \subseteq said'[t]
  BY SaidGrows DEF IInv, OnRecordInv
<1>2. Grader \subseteq Tools
  BY ToolNames DEF Grader
<1>3. OneEach'
  BY DEF OnRecordInv, OneEach
<1>4. \A f : Graded(f, said) => Graded(f, said')
  BY <1>1, <1>2, Zenon DEF Graded
<1>5. GradeInv'
  BY <1>4 DEF OnRecordInv, GradeInv
<1> QED
  BY <1>1, <1>3, <1>5 DEF OnRecordInv

(* The finding that an entry gives is graded by the entry's word. *)
LEMMA FindingGraded ==
  ASSUME TypeInv, SaidInv, NEW i \in Unread, ReadEntry(i), SaidInv',
         NEW v \in (IF round = 1 THEN {i} ELSE Variants(i)),
         Parse(Tool, v, done).out = "find"
  PROVE  Graded(Finding(v), said')
<1>1. AtTool /\ i \in said'[Tool] /\ i \in Shape
  BY ReadEffect
<1>2. PICK t : t = Tool
  OBVIOUS
<1>3. t \in Tools /\ i \in Entries[t] /\ i \in said'[t]
  BY <1>1, <1>2, ToolType DEF SaidInv
<1>4. Finding(v).tool = t /\ Finding(v).severity = Parse(t, v, done).severity
  BY <1>2 DEF Finding
<1>5. CASE v = i
  <2>1. CASE t \in Grader /\ ~Word(i.word)
    BY <1>3, <1>4, <1>5, <2>1 DEF Graded
  <2>2. CASE t \in Grader => Word(i.word)
    <3>1. Level(Parse(t, i, done))
      BY <1>3, <2>2, ParseLevel
    <3> QED
      BY <1>2, <1>4, <1>5, <3>1, Zenon DEF Level, Graded
  <2> QED
    BY <2>1, <2>2
<1>6. CASE v # i
  <2>1. Tool = "ZAP"
    BY <1>6 DEF Variants
  <2>2. Parse("ZAP", v, done) = Zap(v)
    BY DEF Parse
  <2>3. \A c : ZapRisk(c) \in Severities
    <3>1. \A c : ZapRisk(c) \in {"High", "Medium", "Low", "Info"}
      BY Zenon DEF ZapRisk
    <3> QED
      BY <3>1 DEF Severities
  <2>4. Level(Zap(v))
    BY <2>3, FoundLevel DEF Zap
  <2> QED
    BY <1>2, <1>4, <2>1, <2>2, <2>4, Zenon DEF Level, Graded
<1> QED
  BY <1>5, <1>6

LEMMA NextOnRecord == IInv /\ OnRecordInv /\ [Next]_vars => OnRecordInv'
<1> SUFFICES ASSUME IInv, OnRecordInv, [Next]_vars PROVE OnRecordInv'
    OBVIOUS
<1>1. ASSUME NEW i \in Unread, Upsert(i) PROVE OnRecordInv'
  <2>1. ReadEntry(i) /\ rows' = rows
    BY <1>1 DEF Upsert
  <2>2. PICK v \in (IF round = 1 THEN {i} ELSE Variants(i)) :
          /\ Parse(Tool, v, done).out = "find"
          /\ mine' = IF Known(Finding(v)) THEN mine ELSE mine \cup {Finding(v)}
    BY <1>1 DEF Upsert
  <2>3. CASE Known(Finding(v))
    BY <2>1, <2>2, <2>3, RecordKept
  <2>4. CASE ~Known(Finding(v))
    <3>1. SaidInv' /\ \A t \in Tools : said[t] \subseteq said'[t]
      BY SaidGrows DEF IInv, OnRecordInv
    <3>2. rows' \cup mine' = (rows \cup mine) \cup {Finding(v)}
      BY <2>1, <2>2, <2>4
    <3>3. OneEach'
      BY <2>4, <3>2 DEF OnRecordInv, OneEach, Known
    <3>4. Graded(Finding(v), said')
      BY <2>1, <2>2, <3>1, FindingGraded DEF IInv, OnRecordInv
    <3>5. \A f \in rows \cup mine : Graded(f, said')
      <4>1. Grader \subseteq Tools
        BY ToolNames DEF Grader
      <4>2. \A f : Graded(f, said) => Graded(f, said')
        BY <3>1, <4>1, Zenon DEF Graded
      <4> QED
        BY <4>2 DEF OnRecordInv, GradeInv
    <3>6. GradeInv'
      BY <3>2, <3>4, <3>5 DEF GradeInv
    <3> QED
      BY <3>1, <3>3, <3>6 DEF OnRecordInv
  <2> QED
    BY <2>3, <2>4
<1>2. ASSUME NEW i \in Unread,
             Skipped(i) \/ ParserRaises(i) \/ LookupRaises(i) \/ WriteRefused(i)
      PROVE  rows' \cup mine' \subseteq rows \cup mine
  BY <1>2 DEF Skipped, ParserRaises, LookupRaises, WriteRefused, ToolError, Fails
<1>3. Unreadable \/ EndReport \/ Commit \/ CommitBroken \/ Rescan \/ UNCHANGED vars
        => rows' \cup mine' \subseteq rows \cup mine
  BY DEF Unreadable, EndReport, Commit, CommitBroken, Rescan, vars, progress
<1> QED
  BY <1>1, <1>2, <1>3, RecordKept DEF Next

LEMMA RecordInvariance == Spec => [](IInv /\ OnRecordInv)
<1>1. Init => OnRecordInv
  BY DEF Init, OnRecordInv, OneEach, SaidInv, GradeInv
<1> QED
  BY <1>1, InitIInv, NextIInv, NextOnRecord, PTL DEF Spec

(* However often its target is scanned and whatever fails, an engagement   *)
(* has one row for each tool and hash (_upsert_finding, one scan a time).  *)
THEOREM OneRowPerFinding ==
  Spec => [](\A f, g \in rows : f.tool = g.tool /\ f.key = g.key => f = g)
<1>1. OnRecordInv => \A f, g \in rows : f.tool = g.tool /\ f.key = g.key => f = g
  BY DEF OnRecordInv, OneEach
<1> QED
  BY <1>1, RecordInvariance, PTL

(* A severity that the listings and counts do not know is stored only for  *)
(* the four tools whose parsers use norm_sev, and only when an entry has a *)
(* word its map lacks; every other parser maps whatever its tool says.     *)
THEOREM OnlyNormSevLeavesLevels == Spec => [](\A f \in rows : Graded(f, said))
<1>1. OnRecordInv => \A f \in rows : Graded(f, said)
  BY DEF OnRecordInv, GradeInv
<1> QED
  BY <1>1, RecordInvariance, PTL
=============================================================================
