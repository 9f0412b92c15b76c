---------------------------- MODULE SkillFinder ----------------------------
(***************************************************************************)
(* Find of internal/skills/agent.go: a loop that asks a chat model for the *)
(* next message, carries out the tool calls it makes, each answered by its *)
(* id, and asks again, until a message without calls is the answer.        *)
(*                                                                         *)
(* External: the chat model, which may ask for anything, and Firecrawl,    *)
(* which may fail; their clients turn every way of failing (refused, timed *)
(* out, undecodable, no choices) into the one error modelled here, and the *)
(* end of the caller's context shows as that error too.                    *)
(***************************************************************************)
EXTENDS Naturals, Sequences, FiniteSets

CONSTANTS
  maxAgentSteps,  \* round trips to the model
  MaxCalls,       \* bound: tool calls of one message
  Urls,           \* that the model may ask to read
  NoUrl           \* the empty string, of a call that fetched nothing

ASSUME FinderAssumption ==
  maxAgentSteps \in Nat \ {0} /\ MaxCalls \in Nat /\ NoUrl \notin Urls

VARIABLES
  find,      \* "idle", "asking", "calling", or how it ended: "found", "failed"
  step,      \* the loop variable: round trips begun
  messages,  \* of the conversation, after the prompt and the requirement
  answered,  \* calls of the last completion that have their answer
  sources    \* URLs fetched during the search

finderVars == <<find, step, messages, answered, sources>>

\* What the model may ask for: the two tools, or one that does not exist.
Functions == [name : {"fetch_url"}, url : Urls] \cup [name : {"search_github", "other"}]

\* Calls are told apart by their ids; the model gives each its own.
ToolCalls == {[n \in DOMAIN fs |-> [id |-> <<step, n>>, function |-> fs[n]]] :
                fs \in UNION {[1 .. k -> Functions] : k \in 0 .. MaxCalls}}
assistant(calls) == [role |-> "assistant", ToolCalls |-> calls]
tool(id, content) == [role |-> "tool", ToolCallID |-> id, content |-> content]

\* The calls that the last completion made: only answers have come after it.
Requested == messages[Len(messages) - answered].ToolCalls

FinderInit ==
  find = "idle" /\ step = 0 /\ messages = <<>> /\ answered = 0 /\ sources = <<>>

FindBegins ==
  /\ find = "idle"
  /\ find' = "asking" /\ step' = 1
  /\ UNCHANGED <<messages, answered, sources>>

\* No tool calls means the model produced its final answer.
Complete ==
  /\ find = "asking"
  /\ \E calls \in ToolCalls :
       /\ messages' = Append(messages, assistant(calls))
       /\ find' = IF calls = <<>> THEN "found" ELSE "calling"
  /\ answered' = 0
  /\ UNCHANGED <<step, sources>>

CompleteFails ==
  /\ find = "asking"
  /\ find' = "failed"
  /\ UNCHANGED <<step, messages, answered, sources>>

\* The text for the model and the URL fetched: errors are text as well.
dispatch(f) ==
  {[result |-> "error", fetched |-> NoUrl]} \cup
  CASE f.name = "search_github" -> {[result |-> "hits", fetched |-> NoUrl]}
    [] f.name = "fetch_url"     -> {[result |-> "page", fetched |-> f.url]}
    [] f.name = "other"         -> {}

\* The next header of the outer loop, once every call has been answered.
Advance ==
  IF answered' < Len(Requested)
  THEN UNCHANGED <<find, step>>
  ELSE /\ step' = step + 1
       /\ find' = IF step' <= maxAgentSteps THEN "asking" ELSE "failed"

Answer(r) ==
  /\ messages' = Append(messages, tool(Requested[answered + 1].id, r.result))
  /\ sources' = IF r.fetched # NoUrl THEN Append(sources, r.fetched) ELSE sources

\* Mutant of Dispatch: the first call that fails ends the turn.
DispatchBreaks ==
  /\ find = "calling"
  /\ \E r \in dispatch(Requested[answered + 1].function) :
       /\ Answer(r)
       /\ answered' = IF r.result = "error" THEN Len(Requested) ELSE answered + 1
  /\ Advance

\* Mutant of Dispatch: a call that failed is made again.
DispatchRetries ==
  /\ find = "calling"
  /\ \E r \in dispatch(Requested[answered + 1].function) :
       IF r.result = "error"
       THEN UNCHANGED finderVars
       ELSE Answer(r) /\ answered' = answered + 1 /\ Advance

\* One turn of the inner loop.
Dispatch ==
  /\ find = "calling"
  /\ \E r \in dispatch(Requested[answered + 1].function) : Answer(r)
  /\ answered' = answered + 1
  /\ Advance

FinderNext == Complete \/ CompleteFails \/ Dispatch

Completions == {p \in DOMAIN messages : messages[p].role = "assistant"}
Answers == {p \in DOMAIN messages : messages[p].role = "tool"}
Pages == {p \in Answers : messages[p].content = "page"}

\* The place of a page among the pages of the conversation.
Nth(p) == Cardinality({r \in Pages : r <= p})

\* The conversation is one the model accepts, and the sources are the pages
\* it was shown: whatever calls fail, each is answered once, in turn, before
\* the next completion is asked for, and a URL is a source exactly when its
\* page was fetched.
TranscriptSound ==
  /\ \A p \in Answers : \E q \in Completions : p - q \in DOMAIN messages[q].ToolCalls
  /\ \A q \in Completions : \A n \in DOMAIN messages[q].ToolCalls :
       IF q + n \in DOMAIN messages
       THEN /\ q + n \in Answers
            /\ messages[q + n].ToolCallID = messages[q].ToolCalls[n].id
            /\ q + n \in Pages => sources[Nth(q + n)] = messages[q].ToolCalls[n].function.url
       ELSE find \notin {"asking", "found"}
  /\ Len(sources) = Cardinality(Pages)
=============================================================================
