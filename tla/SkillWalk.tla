----------------------------- MODULE SkillWalk -----------------------------
(***************************************************************************)
(* list of internal/skills/github.go, the recursion by which Download      *)
(* finds the files of a skill: every call lists one directory over the     *)
(* network, then goes through the items in order, taking files and calling *)
(* itself on directories, within a depth and a number of files.            *)
(*                                                                         *)
(* External: GitHub's contents API, which answers with whatever the        *)
(* repository holds at that moment, or fails.                              *)
(***************************************************************************)
EXTENDS Integers, Sequences, FiniteSets

CONSTANTS
  maxSkillFiles, maxSkillDepth,
  MaxItems  \* bound: items of one listing

ASSUME WalkAssumption ==
  maxSkillFiles \in Nat \ {0} /\ maxSkillDepth \in Nat /\ MaxItems \in Nat

VARIABLES
  walk,    \* "idle", "asking", "walking", or how it ended: "listed", "failed"
  stack,   \* the items each call in progress has yet to go through
  acc,     \* files taken
  shown,   \* files that the listings held, for the property
  unasked  \* directories within the depth that no request went out for

walkVars == <<walk, stack, acc, shown, unasked>>

\* An item that is neither file nor directory is a link or a submodule.
Types == {"file", "dir", "symlink"}
Listings == UNION {[1 .. n -> Types] : n \in 0 .. MaxItems}

\* The depth of the last call of the stack.
depth == Len(stack) - 1
Unseen == stack[Len(stack)]
Rest == [stack EXCEPT ![Len(stack)] = Tail(@)]
HowMany(items, type) == Cardinality({n \in DOMAIN items : items[n] = type})
Within(d) == d <= maxSkillDepth

WalkInit ==
  walk = "idle" /\ stack = <<>> /\ acc = 0 /\ shown = 0 /\ unasked = 0

WalkBegins ==
  /\ walk = "idle"
  /\ walk' = "asking" /\ stack' = << <<>> >>
  /\ UNCHANGED <<acc, shown, unasked>>

\* An array for a directory, and for a file one object, a list of one.
Listed ==
  /\ walk = "asking"
  /\ \E items \in Listings :
       /\ stack' = [stack EXCEPT ![Len(stack)] = items]
       /\ shown' = shown + HowMany(items, "file")
       /\ unasked' = unasked + IF Within(depth + 1) THEN HowMany(items, "dir") ELSE 0
  /\ walk' = "walking"
  /\ UNCHANGED acc

\* One listing that fails is the end of the download.
ListFails ==
  /\ walk = "asking"
  /\ walk' = "failed"
  /\ UNCHANGED <<stack, acc, shown, unasked>>

\* Mutant of Take: acc is passed by value, so the caller of a nested call
\* never sees the files it took.
TakeByValue ==
  /\ walk = "walking" /\ Unseen # <<>> /\ acc < maxSkillFiles
  /\ Head(Unseen) = "file"
  /\ acc' = IF depth = 0 THEN acc + 1 ELSE acc
  /\ stack' = Rest
  /\ UNCHANGED <<walk, shown, unasked>>

Take ==
  /\ walk = "walking" /\ Unseen # <<>> /\ acc < maxSkillFiles
  /\ Head(Unseen) = "file"
  /\ acc' = acc + 1
  /\ stack' = Rest
  /\ UNCHANGED <<walk, shown, unasked>>

Pass ==
  /\ walk = "walking" /\ Unseen # <<>> /\ acc < maxSkillFiles
  /\ Head(Unseen) = "symlink"
  /\ stack' = Rest
  /\ UNCHANGED <<walk, acc, shown, unasked>>

\* The nested call returns at once when it is too deep.
Enter ==
  /\ walk = "walking" /\ Unseen # <<>> /\ acc < maxSkillFiles
  /\ Head(Unseen) = "dir"
  /\ IF Within(depth + 1)
     THEN stack' = Append(Rest, <<>>) /\ walk' = "asking" /\ unasked' = unasked - 1
     ELSE stack' = Rest /\ UNCHANGED <<walk, unasked>>
  /\ UNCHANGED <<acc, shown>>

\* The loop is over, or broken off at the limit.
Return ==
  /\ walk = "walking" /\ (Unseen = <<>> \/ acc >= maxSkillFiles)
  /\ stack' = SubSeq(stack, 1, Len(stack) - 1)
  /\ walk' = CASE Len(stack) > 1           -> "walking"
               [] Len(stack) = 1 /\ acc = 0 -> "failed"  \* no files found
               [] OTHER                     -> "listed"
  /\ UNCHANGED <<acc, shown, unasked>>

WalkNext == Listed \/ ListFails \/ Take \/ Pass \/ Enter \/ Return

\* The limits hold however wide and deep the repository is, and cost nothing
\* while they are not met: a download short of the limit on files has every
\* file it was shown, and has looked into every directory within the depth.
WalkWithinLimits ==
  /\ acc <= maxSkillFiles /\ Len(stack) <= maxSkillDepth + 1
  /\ walk = "listed" /\ acc < maxSkillFiles => acc = shown /\ unasked = 0
=============================================================================
