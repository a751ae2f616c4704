--------------------------- MODULE MCParseReports ---------------------------
(* A handful of entries of each tool: severities inside and outside the    *)
(* maps, entries the parsers filter, malformed ones, entries that share    *)
(* name or place, and both kinds of sqlmap output.                         *)
EXTENDS ParseReports, TLC

Entry(form, section, word, place, what, line) ==
    [form |-> form, section |-> section, word |-> word,
     place |-> place, what |-> what, line |-> line]

Sound(word, place, what) == Entry("sound", "", word, place, what, "")
Alien == Entry("alien", "", "", "", "", "")
Garbled == Entry("garbled", "port", "open", "p", "b", "")
Null  == Entry("null", "", "", "p", "a", "")

EntriesDef == [
    Nuclei   |-> {Sound("high", "p", "a"), Sound("unknown", "q", "a"), Alien, Garbled},
    Katana   |-> {Sound("", "p", ""), Sound("", "", ""), Alien, Garbled},
    Ffuf     |-> {Sound("200", "p", "a"), Sound("404", "q", "b"), Null},
    ZAP      |-> {Sound("3", "p", "a"), Entry("sound", "", "9", "p", "b", "q"), Sound("0", "p", "")},
    Testssl  |-> {Sound("HIGH", "p", "a"), Sound("OK", "p", "b"), Sound("FATAL", "p", "c"), Null},
    SQLmap   |-> {Entry("sound", "xml", "", "p", "a", ""), Entry("alien", "xml", "", "p", "b", ""),
                  Entry("sound", "log", "", "p", "b", ""), Entry("sound", "log", "", "q", "c", "")},
    Semgrep  |-> {Entry("sound", "", "ERROR", "p", "a", "1"), Entry("sound", "", "INVENTORY", "p", "a", "2"), Alien},
    Trivy    |-> {Entry("sound", "Vulnerabilities", "CRITICAL", "p", "a", ""),
                  Entry("null", "Vulnerabilities", "LOW", "p", "b", ""),
                  Entry("sound", "Secrets", "", "p", "c", "1"), Entry("sound", "Secrets", "", "p", "c", "2"),
                  Entry("sound", "Misconfigurations", "LOW", "p", "d", "1"),
                  Entry("sound", "Misconfigurations", "LOW", "p", "d", "2")},
    Gitleaks |-> {Entry("sound", "", "", "p", "a", "1"), Null},
    Hadolint |-> {Entry("sound", "", "style", "p", "a", "1"), Entry("null", "", "", "p", "b", "2"), Alien},
    Nmap     |-> {Entry("sound", "port", "open", "p", "80", ""), Entry("sound", "port", "closed", "q", "81", ""),
                  Entry("sound", "script", "open", "p", "vuln", "text"),
                  Entry("sound", "script", "open", "p", "ssl", "ERROR"),
                  Entry("sound", "script", "closed", "q", "vuln", "text"), Garbled},
    ScoutSuite |-> {Sound("danger", "p", "a"), Sound("good", "p", "b"), Alien, Null},
    Prowler  |-> {Entry("sound", "FAIL", "critical", "p", "a", ""), Entry("sound", "PASS", "low", "p", "b", ""),
                  Alien, Null},
    MobSF    |-> {Entry("sound", "findings", "secure", "", "a", ""),
                  Entry("sound", "permissions", "dangerous", "", "b", ""),
                  Entry("sound", "permissions", "normal", "", "c", ""),
                  Entry("sound", "network", "high", "", "a", ""),
                  Entry("sound", "network", "info", "", "d", ""), Alien, Null}]
=============================================================================
