------------------------------ MODULE Browser ------------------------------
(***************************************************************************)
(* Whose browser a request comes from, as the Fiber middleware reads it    *)
(* (fiber/bikeeperfiber.go, parseUserAgent).  Sec-CH-UA is the sequence of *)
(* its brands, a version being "none" where it has none; a User-Agent is   *)
(* the function from the words that the code looks for and that it holds   *)
(* to the major version behind the word.  A space is written as _.         *)
(***************************************************************************)
EXTENDS Selection

NoBrowser == [name |-> "", version |-> ""]

BrandPriority(name) ==
  CASE name = "Brave" -> 4
    [] name \in {"Opera", "OPR"} -> 3
    [] name = "Microsoft_Edge" -> 2
    [] name = "Google_Chrome" -> 1
    [] OTHER -> 0

\* "Not" stands for every brand that has it in its name.
ParseBrandHeader(brands) ==
  LET real == Select(brands, {i \in DOMAIN brands :
                                /\ brands[i].name \notin {"Not", "Chromium"}
                                /\ brands[i].version # "none"})
      beats(i, j) ==
        \/ BrandPriority(real[i].name) > BrandPriority(real[j].name)
        \/ BrandPriority(real[i].name) = BrandPriority(real[j].name) /\ i <= j
  IN IF real = <<>> THEN NoBrowser
     ELSE real[CHOOSE i \in DOMAIN real : \A j \in DOMAIN real : beats(i, j)]

\* The words in the order of the switch, and the names they stand for.
AgentWords == <<"Firefox/", "Edg/", "OPR/", "Chrome/", "Version/">>
AgentNames == <<"Firefox", "Edge", "Opera", "Chrome", "Safari">>

DetectBrowserFromUA(agent) ==
  LET found == {i \in DOMAIN AgentWords :
                  /\ AgentWords[i] \in DOMAIN agent
                  /\ AgentWords[i] = "Version/" => "Safari/" \in DOMAIN agent}
      first == CHOOSE i \in found : \A j \in found : i <= j
  IN IF found = {} THEN NoBrowser
     ELSE [name |-> AgentNames[first], version |-> agent[AgentWords[first]]]

\* Likewise for the systems; two words may stand for one.
SystemWords == <<{"iPhone", "iPad"}, {"Android"}, {"Macintosh", "Mac_OS_X"},
                 {"Windows_NT"}, {"CrOS"}, {"Linux"}>>
SystemNames == <<"iOS", "Android", "macOS", "Windows", "Chrome_OS", "Linux">>

DetectOSFromUA(agent) ==
  LET found == {i \in DOMAIN SystemWords : SystemWords[i] \cap DOMAIN agent # {}}
  IN IF found = {} THEN ""
     ELSE SystemNames[CHOOSE i \in found : \A j \in found : i <= j]

\* The switch that New and enrichWithHTTPContext both have.
ShortName(name) ==
  CASE name = "Google_Chrome" -> "Chrome"
    [] name = "Microsoft_Edge" -> "Edge"
    [] OTHER -> name

\* parseUserAgent.
ParseUserAgent(brands, agent) ==
  LET hinted == ParseBrandHeader(brands)
      browser == IF hinted.name = "" THEN DetectBrowserFromUA(agent) ELSE hinted
  IN [name |-> browser.name, version |-> browser.version, os |-> DetectOSFromUA(agent)]
=============================================================================
