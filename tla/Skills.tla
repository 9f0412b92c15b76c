------------------------------- MODULE Skills -------------------------------
(***************************************************************************)
(* The skills namespace as one caller meets it: skills_find, then what it  *)
(* likes of skills_download, one call at a time.  Calls share nothing but  *)
(* the clients of the services, so one caller's calls stand for all; the   *)
(* fan-outs around Find and of the raw files are module Fanout, of which   *)
(* a download here sees the outcome.  Calls refused before anything is     *)
(* sent (a blank requirement, a source that is no GitHub location) change  *)
(* nothing and are left out.                                               *)
(***************************************************************************)
EXTENDS SkillFinder, SkillWalk

VARIABLES
  chat,   \* is there a key for the model, so that skills_find is served
  call,   \* the call in progress, or "none"
  files   \* of the download: fetched, or an error in its place

skillsVars == <<finderVars, walkVars, chat, call, files>>

SkillsInit == FinderInit /\ WalkInit /\ chat \in BOOLEAN /\ call = "none" /\ files = <<>>

CallFind ==
  /\ call = "none" /\ chat
  /\ call' = "skills_find"
  /\ FindBegins
  /\ UNCHANGED <<walkVars, chat, files>>

FindReturns ==
  /\ find \in {"found", "failed"}
  /\ call' = "none"
  /\ find' = "idle" /\ step' = 0 /\ messages' = <<>> /\ answered' = 0 /\ sources' = <<>>
  /\ UNCHANGED <<walkVars, chat, files>>

CallDownload ==
  /\ call = "none"
  /\ call' = "skills_download"
  /\ WalkBegins
  /\ UNCHANGED <<finderVars, chat, files>>

\* Every file has its outcome, and one bad file does not sink the download.
Fetch ==
  /\ walk = "listed" /\ files = <<>>
  /\ files' \in [1 .. acc -> {"content", "error"}]
  /\ UNCHANGED <<finderVars, walkVars, chat, call>>

DownloadReturns ==
  /\ walk = "failed" \/ files # <<>>
  /\ call' = "none" /\ files' = <<>>
  /\ walk' = "idle" /\ stack' = <<>> /\ acc' = 0 /\ shown' = 0 /\ unasked' = 0
  /\ UNCHANGED <<finderVars, chat>>

Searching == FinderNext /\ UNCHANGED <<walkVars, chat, call, files>>
Walking == WalkNext /\ UNCHANGED <<finderVars, chat, call, files>>

Working == Searching \/ FindReturns \/ Walking \/ Fetch \/ DownloadReturns

SkillsNext == CallFind \/ CallDownload \/ Working

SkillsSpec == SkillsInit /\ [][SkillsNext]_skillsVars

\* The server goes on with its calls: every request it makes has an answer or
\* a timeout.
FairSkills == SkillsSpec /\ WF_skillsVars(Working)

\* A call to the namespace comes back, whatever the chat model asks for,
\* whatever the repository holds and whichever of the services fail.
CallsEnd == call # "none" ~> call = "none"
=============================================================================
