---------------------------- MODULE SkillsProofs ----------------------------
(***************************************************************************)
(* Proofs about the skills namespace: the agent's conversation (Skills     *)
(* with SkillFinder), the directory walk (Skills with SkillWalk) and the   *)
(* fan-outs around both (Fanout), for any limits and any sizes.            *)
(***************************************************************************)
EXTENDS Skills, Fanout, FiniteSetTheorems, FunctionTheorems, SequenceTheorems, TLAPS

(***************************************************************************)
(* The conversation.                                                       *)
(***************************************************************************)
Call == [id : Nat \X Nat, function : Functions]
Message ==
  [role : {"assistant"}, ToolCalls : Seq(Call)] \cup
  [role : {"tool"}, ToolCallID : Nat \X Nat, content : {"error", "hits", "page"}]

FinderTyped ==
  /\ find \in {"idle", "asking", "calling", "found", "failed"}
  /\ step \in Nat
  /\ messages \in Seq(Message)
  /\ answered \in Nat
  /\ sources \in Seq(Urls)

\* Only the last completion has calls without an answer, and answered says how
\* many of them have one.
TurnsDone ==
  /\ \A q \in Completions :
       \/ q + Len(messages[q].ToolCalls) <= Len(messages)
       \/ find = "calling" /\ q = Len(messages) - answered
  /\ find = "calling" => /\ Len(messages) - answered \in Completions
                         /\ answered < Len(Requested)

FinderInv == FinderTyped /\ TurnsDone /\ TranscriptSound

\* What the model may ask for is a sequence of calls, fewer than it pleases.
LEMMA CallsTyped ==
  ASSUME step \in Nat, NEW calls \in ToolCalls
  PROVE  calls \in Seq(Call)
<1> USE FinderAssumption
<1>1. PICK k \in 0 .. MaxCalls : \E fs \in [1 .. k -> Functions] :
        calls = [n \in DOMAIN fs |-> [id |-> <<step, n>>, function |-> fs[n]]]
  BY DEF ToolCalls
<1>2. PICK fs \in [1 .. k -> Functions] :
        calls = [n \in DOMAIN fs |-> [id |-> <<step, n>>, function |-> fs[n]]]
  BY <1>1
<1>3. calls = [n \in 1 .. k |-> [id |-> <<step, n>>, function |-> fs[n]]]
  BY <1>2
<1>4. k \in Nat
  <2>1. MaxCalls \in Nat
    OBVIOUS
  <2>2. k \in 0 .. MaxCalls
    OBVIOUS
  <2> QED BY <2>1, <2>2
<1>5. ASSUME NEW n \in 1 .. k PROVE calls[n] \in Call
  <2>1. calls[n] = [id |-> <<step, n>>, function |-> fs[n]]
    BY <1>3
  <2>2. n \in Nat /\ fs[n] \in Functions
    BY <1>4
  <2> QED BY <2>1, <2>2 DEF Call
<1>6. DOMAIN calls = 1 .. k /\ calls = [n \in 1 .. k |-> calls[n]]
  BY <1>3
<1>7. calls \in [1 .. k -> Call]
  BY <1>5, <1>6
<1> QED BY <1>4, <1>7

\* What the conversation was before a message it still is after it.
LEMMA Appended ==
  ASSUME FinderTyped, NEW m \in Message, messages' = Append(messages, m)
  PROVE  /\ messages' \in Seq(Message)
         /\ Len(messages') = Len(messages) + 1
         /\ DOMAIN messages = 1 .. Len(messages)
         /\ DOMAIN messages' = 1 .. Len(messages) + 1
         /\ messages'[Len(messages) + 1] = m
         /\ \A p \in DOMAIN messages : messages'[p] = messages[p]
BY DEF FinderTyped

\* The pages of a conversation can be counted.
LEMMA PagesFinite ==
  ASSUME FinderTyped
  PROVE  IsFiniteSet(Pages) /\ \A p : IsFiniteSet({r \in Pages : r <= p})
<1>1. IsFiniteSet(1 .. Len(messages)) /\ DOMAIN messages = 1 .. Len(messages)
  BY FS_Interval DEF FinderTyped
<1>2. Pages \in SUBSET (1 .. Len(messages))
  BY <1>1 DEF Pages, Answers
<1> QED BY <1>1, <1>2, FS_Subset

\* What the next message adds to the places of each kind of message.
LEMMA SetsAfter ==
  ASSUME FinderTyped, NEW m \in Message, messages' = Append(messages, m)
  PROVE  /\ Completions' = Completions \cup IF m.role = "assistant" THEN {Len(messages) + 1} ELSE {}
         /\ Answers' = Answers \cup IF m.role = "tool" THEN {Len(messages) + 1} ELSE {}
         /\ Pages' = Pages \cup IF m.role = "tool" /\ m.content = "page" THEN {Len(messages) + 1} ELSE {}
         /\ Completions \cup Answers \cup Pages \subseteq 1 .. Len(messages)
<1>1. /\ Len(messages) \in Nat
      /\ DOMAIN messages = 1 .. Len(messages)
      /\ DOMAIN messages' = 1 .. Len(messages) + 1
      /\ messages'[Len(messages) + 1] = m
      /\ \A p \in DOMAIN messages : messages'[p] = messages[p]
  BY Appended DEF FinderTyped
<1>2. Completions' = Completions \cup IF m.role = "assistant" THEN {Len(messages) + 1} ELSE {}
  BY <1>1 DEF Completions
<1>3. Answers' = Answers \cup IF m.role = "tool" THEN {Len(messages) + 1} ELSE {}
  BY <1>1 DEF Answers
<1>4. Pages' = Pages \cup IF m.role = "tool" /\ m.content = "page" THEN {Len(messages) + 1} ELSE {}
  BY <1>1, <1>3 DEF Pages, Answers
<1> QED BY <1>1, <1>2, <1>3, <1>4 DEF Completions, Answers, Pages

\* A completion begins a turn when every earlier one is over.
LEMMA CompleteKeeps == FinderInv /\ Complete => FinderInv'
<1> SUFFICES ASSUME FinderInv, Complete PROVE FinderInv'
  OBVIOUS
<1>a. FinderTyped /\ TurnsDone /\ TranscriptSound
  BY DEF FinderInv
<1>1. PICK calls \in ToolCalls :
        /\ messages' = Append(messages, assistant(calls))
        /\ find' = IF calls = <<>> THEN "found" ELSE "calling"
  BY DEF Complete
<1>2. find = "asking" /\ answered' = 0 /\ step' = step /\ sources' = sources
  BY DEF Complete
<1> DEFINE L == Len(messages)
<1>3. calls \in Seq(Call)
  BY <1>a, CallsTyped DEF FinderTyped
<1>4. assistant(calls) \in Message /\ assistant(calls).role = "assistant" /\ assistant(calls).ToolCalls = calls
  BY <1>3 DEF assistant, Message
<1>5. /\ L \in Nat /\ Len(messages') = L + 1 /\ DOMAIN messages = 1 .. L /\ DOMAIN messages' = 1 .. L + 1
      /\ messages'[L + 1] = assistant(calls)
      /\ \A p \in DOMAIN messages : messages'[p] = messages[p]
      /\ messages' \in Seq(Message)
  BY <1>1, <1>4, <1>a, Appended DEF FinderTyped
<1>6. /\ Completions' = Completions \cup {L + 1} /\ Answers' = Answers /\ Pages' = Pages
      /\ Completions \subseteq 1 .. L /\ Answers \subseteq 1 .. L
  BY <1>1, <1>4, <1>a, SetsAfter
<1>7. FinderTyped'
  BY <1>a, <1>1, <1>2, <1>5 DEF FinderTyped
<1>8. \A q \in Completions : q + Len(messages[q].ToolCalls) <= L /\ messages'[q] = messages[q]
  BY <1>a, <1>2, <1>5, <1>6 DEF TurnsDone
<1>9. TurnsDone'
  <2>1. calls # <<>> => Len(calls) > 0
    BY <1>3
  <2>2. calls = <<>> => Len(calls) = 0
    OBVIOUS
  <2>3. Len(messages') - answered' = L + 1 /\ messages'[L + 1].ToolCalls = calls
    BY <1>2, <1>4, <1>5
  <2>4. Requested' = calls
    BY <2>3 DEF Requested
  <2>5. find' = "calling" => Len(messages') - answered' \in Completions' /\ answered' < Len(Requested')
    BY <1>1, <1>2, <1>6, <2>1, <2>3, <2>4
  <2>6. \A q \in Completions' :
          \/ q + Len(messages'[q].ToolCalls) <= Len(messages')
          \/ find' = "calling" /\ q = Len(messages') - answered'
    <3>1. CASE calls = <<>>
      BY <3>1, <1>5, <1>6, <1>8, <2>2, <2>3
    <3>2. CASE calls # <<>>
      <4>1. find' = "calling"
        BY <3>2, <1>1
      <4>2. \A q \in Completions : q + Len(messages[q].ToolCalls) <= L + 1
        <5> SUFFICES ASSUME NEW q \in Completions PROVE q + Len(messages[q].ToolCalls) <= L + 1
          OBVIOUS
        <5>1. messages[q] \in Message /\ messages[q].role = "assistant"
          BY <1>a, <1>5, <1>6 DEF FinderTyped, Completions
        <5>2. Len(messages[q].ToolCalls) \in Nat
          BY <5>1 DEF Message
        <5> QED BY <1>5, <1>6, <1>8, <5>2
      <4> QED BY <4>1, <4>2, <1>5, <1>6, <1>8, <2>3
    <3> QED BY <3>1, <3>2
  <2> QED BY <2>5, <2>6 DEF TurnsDone
<1>10. TranscriptSound'
  <2>1. \A p \in Answers' : \E q \in Completions' : p - q \in DOMAIN messages'[q].ToolCalls
    BY <1>a, <1>6, <1>8 DEF TranscriptSound
  <2>2. Len(sources') = Cardinality(Pages')
    BY <1>a, <1>2, <1>6 DEF TranscriptSound
  <2>3. \A p : Nth(p)' = Nth(p)
    BY <1>6 DEF Nth
  <2>4. ASSUME NEW q \in Completions', NEW n \in DOMAIN messages'[q].ToolCalls
        PROVE  IF q + n \in DOMAIN messages'
               THEN /\ q + n \in Answers'
                    /\ messages'[q + n].ToolCallID = messages'[q].ToolCalls[n].id
                    /\ q + n \in Pages' => sources'[Nth(q + n)'] = messages'[q].ToolCalls[n].function.url
               ELSE find' \notin {"asking", "found"}
    <3>1. CASE q = L + 1
      <4>1. messages'[q].ToolCalls = calls
        BY <3>1, <1>4, <1>5
      <4>2. n \in Nat /\ n > 0 /\ calls # <<>>
        BY <4>1, <1>3
      <4>3. q + n \notin DOMAIN messages'
        BY <3>1, <4>2, <1>5
      <4> QED BY <4>2, <4>3, <1>1
    <3>2. CASE q \in Completions
      <4>1. q \in 1 .. L /\ messages'[q] = messages[q] /\ n \in DOMAIN messages[q].ToolCalls
        BY <3>2, <1>6, <1>8
      <4>2. messages[q] \in Message /\ messages[q].role = "assistant"
        BY <3>2, <1>a, <1>5 DEF FinderTyped, Completions
      <4>3. messages[q].ToolCalls \in Seq(Call)
        BY <4>2 DEF Message
      <4>4. n \in 1 .. Len(messages[q].ToolCalls)
        BY <4>1, <4>3
      <4>5. q + n \in 1 .. L
        BY <4>1, <4>3, <4>4, <3>2, <1>5, <1>8
      <4>6. messages'[q + n] = messages[q + n] /\ q + n \in DOMAIN messages /\ q + n \in DOMAIN messages'
        BY <4>5, <1>5
      <4> QED BY <3>2, <4>1, <4>6, <1>a, <1>2, <1>6, <2>3 DEF TranscriptSound
    <3> QED BY <3>1, <3>2, <1>6
  <2> QED BY <2>1, <2>2, <2>4 DEF TranscriptSound
<1> QED BY <1>7, <1>9, <1>10 DEF FinderInv

\* What comes back from a call: a page only from the fetch of its URL.
LEMMA Dispatched ==
  ASSUME NEW f \in Functions, NEW r \in dispatch(f)
  PROVE  /\ r.result \in {"error", "hits", "page"}
         /\ r.result = "page" => r.fetched = f.url /\ r.fetched \in Urls
         /\ r.result # "page" => r.fetched = NoUrl
<1> USE FinderAssumption
<1>1. CASE f.name = "search_github"
  BY <1>1 DEF dispatch
<1>2. CASE f.name = "fetch_url"
  <2>1. f.url \in Urls
    BY <1>2 DEF Functions
  <2>2. r = [result |-> "error", fetched |-> NoUrl] \/ r = [result |-> "page", fetched |-> f.url]
    BY <1>2 DEF dispatch
  <2> QED BY <2>1, <2>2
<1>3. CASE f.name = "other"
  BY <1>3 DEF dispatch
<1> QED BY <1>1, <1>2, <1>3 DEF Functions

\* An answer goes to the first call that has none, and its page, if it brought
\* one, behind the sources so far.
LEMMA DispatchKeeps == FinderInv /\ Dispatch => FinderInv'
<1> SUFFICES ASSUME FinderInv, Dispatch PROVE FinderInv'
  OBVIOUS
<1> USE FinderAssumption
<1>a. FinderTyped /\ TurnsDone /\ TranscriptSound
  BY DEF FinderInv
<1> DEFINE L == Len(messages)
           c == L - answered
           n1 == answered + 1
<1>1. /\ find = "calling" /\ c \in Completions /\ answered < Len(Requested) /\ answered \in Nat
      /\ Requested = messages[c].ToolCalls /\ answered' = answered + 1
  BY <1>a DEF Dispatch, TurnsDone, FinderTyped, Requested
<1>2. L \in Nat /\ DOMAIN messages = 1 .. L /\ c \in 1 .. L
  BY <1>a, <1>1 DEF FinderTyped, Completions
<1>3. Requested \in Seq(Call) /\ n1 \in DOMAIN Requested /\ Len(Requested) \in Nat
  <2>1. messages[c] \in Message /\ messages[c].role = "assistant"
    BY <1>a, <1>1, <1>2 DEF FinderTyped, Completions
  <2>2. Requested \in Seq(Call)
    BY <2>1, <1>1 DEF Message
  <2> QED BY <2>2, <1>1
<1>4. Requested[n1] \in Call
  BY <1>3
<1>5. PICK r \in dispatch(Requested[n1].function) : Answer(r)
  BY DEF Dispatch
<1>6. /\ r.result \in {"error", "hits", "page"}
      /\ r.result = "page" => r.fetched = Requested[n1].function.url /\ r.fetched \in Urls
      /\ r.result # "page" => r.fetched = NoUrl
  <2>1. Requested[n1].function \in Functions
    BY <1>4 DEF Call
  <2> QED BY <2>1, Dispatched
<1> DEFINE m == tool(Requested[n1].id, r.result)
<1>7. /\ m \in Message /\ m.role = "tool" /\ m.ToolCallID = Requested[n1].id
      /\ m.content = r.result /\ messages' = Append(messages, m)
  BY <1>4, <1>5, <1>6 DEF tool, Message, Call, Answer
<1>8. /\ Len(messages') = L + 1 /\ DOMAIN messages' = 1 .. L + 1
      /\ messages'[L + 1] = m
      /\ \A p \in 1 .. L : messages'[p] = messages[p]
      /\ messages' \in Seq(Message)
  BY <1>2, <1>7, <1>a, Appended
<1>9. /\ Completions' = Completions /\ Answers' = Answers \cup {L + 1}
      /\ Pages' = Pages \cup IF r.result = "page" THEN {L + 1} ELSE {}
      /\ Completions \subseteq 1 .. L /\ Answers \subseteq 1 .. L /\ Pages \subseteq 1 .. L
  <2> HIDE DEF m
  <2> QED BY <1>7, <1>a, SetsAfter
<1>10. sources' = IF r.result = "page" THEN Append(sources, r.fetched) ELSE sources
  BY <1>5, <1>6 DEF Answer
<1>11. /\ sources \in Seq(Urls) /\ sources' \in Seq(Urls) /\ Len(sources) \in Nat
       /\ Len(sources) = Cardinality(Pages)
  BY <1>a, <1>6, <1>10 DEF FinderTyped, TranscriptSound
<1>12. /\ answered' < Len(Requested) => find' = "calling" /\ step' = step
       /\ ~(answered' < Len(Requested)) => find' \in {"asking", "failed"} /\ step' = step + 1
  BY <1>1 DEF Dispatch, Advance
<1> HIDE DEF m
<1>13. FinderTyped'
  BY <1>a, <1>1, <1>8, <1>11, <1>12 DEF FinderTyped
<1>14. \A q \in Completions : /\ messages'[q] = messages[q] /\ q \in 1 .. L
                              /\ messages[q].ToolCalls \in Seq(Call)
                              /\ Len(messages[q].ToolCalls) \in Nat
  <2> SUFFICES ASSUME NEW q \in Completions
               PROVE  /\ messages'[q] = messages[q] /\ q \in 1 .. L
                      /\ messages[q].ToolCalls \in Seq(Call)
                      /\ Len(messages[q].ToolCalls) \in Nat
    OBVIOUS
  <2>1. messages[q] \in Message /\ messages[q].role = "assistant"
    BY <1>a, <1>2, <1>9 DEF FinderTyped, Completions
  <2>2. messages[q].ToolCalls \in Seq(Call)
    BY <2>1 DEF Message
  <2> QED BY <2>2, <1>8, <1>9
<1>15. \A q \in Completions : q # c => q + Len(messages[q].ToolCalls) <= L
  BY <1>a DEF TurnsDone
<1>16. TurnsDone'
  <2>1. Len(messages') - answered' = c /\ Requested' = Requested
    BY <1>1, <1>2, <1>8 DEF Requested
  <2>2. ASSUME NEW q \in Completions'
        PROVE  \/ q + Len(messages'[q].ToolCalls) <= Len(messages')
               \/ find' = "calling" /\ q = Len(messages') - answered'
    <3>1. CASE q = c
      BY <3>1, <2>1, <1>1, <1>2, <1>3, <1>8, <1>12, <1>14
    <3>2. CASE q # c
      BY <3>2, <1>2, <1>8, <1>9, <1>14, <1>15
    <3> QED BY <3>1, <3>2
  <2>3. find' = "calling" => answered' < Len(Requested)
    BY <1>12
  <2> QED BY <2>1, <2>2, <2>3, <1>1, <1>9 DEF TurnsDone
<1>17. TranscriptSound'
  <2>1. ASSUME NEW p \in Answers'
        PROVE  \E q \in Completions' : p - q \in DOMAIN messages'[q].ToolCalls
    <3>1. CASE p = L + 1
      <4>1. p - c = n1 /\ messages'[c].ToolCalls = Requested
        BY <3>1, <1>1, <1>2, <1>14
      <4> QED BY <4>1, <1>1, <1>3, <1>9
    <3>2. CASE p \in Answers
      BY <3>2, <1>a, <1>9, <1>14 DEF TranscriptSound
    <3> QED BY <3>1, <3>2, <1>9
  <2>2. Cardinality(Pages) \in Nat /\ IsFiniteSet(Pages) /\ L + 1 \notin Pages
    BY <1>a, <1>2, <1>9, PagesFinite, FS_CardinalityType
  <2>3. Len(sources') = Cardinality(Pages')
    <3>1. CASE r.result = "page"
      <4>1. Pages' = Pages \cup {L + 1} /\ Len(sources') = Len(sources) + 1
        BY <3>1, <1>6, <1>9, <1>10, <1>11
      <4>2. Cardinality(Pages') = Cardinality(Pages) + 1
        BY <4>1, <2>2, FS_AddElement
      <4> QED BY <4>1, <4>2, <1>11
    <3>2. CASE r.result # "page"
      BY <3>2, <1>9, <1>10, <1>11
    <3> QED BY <3>1, <3>2
  <2>4. ASSUME NEW p \in Pages
        PROVE  Nth(p)' = Nth(p) /\ sources'[Nth(p)] = sources[Nth(p)]
    <3>1. p \in 1 .. L
      BY <1>9
    <3> DEFINE before == {x \in Pages : x <= p}
    <3>2. {x \in Pages' : x <= p} = before
      BY <3>1, <1>2, <1>9
    <3>3. IsFiniteSet(before) /\ Cardinality(before) <= Cardinality(Pages) /\ p \in before
      BY <2>2, <3>1, FS_Subset
    <3>4. Cardinality(before) \in Nat /\ Cardinality(before) # 0
      BY <3>3, FS_CardinalityType, FS_EmptySet
    <3>5. Nth(p) = Cardinality(before) /\ Nth(p)' = Nth(p)
      BY <3>2 DEF Nth
    <3>6. Nth(p) \in 1 .. Len(sources)
      BY <3>3, <3>4, <3>5, <2>2, <1>11
    <3> QED BY <3>5, <3>6, <1>10, <1>11
  <2>5. ASSUME r.result = "page", NEW p, p = L + 1
        PROVE  Nth(p)' = Len(sources) + 1
    <3>1. Pages' = Pages \cup {L + 1}
      BY <2>5, <1>9
    <3>2. \A x \in Pages' : x <= p
      BY <2>5, <3>1, <1>2, <1>9
    <3>3. Cardinality(Pages') = Len(sources) + 1
      BY <3>1, <2>2, <1>11, FS_AddElement
    <3>4. {x \in Pages' : x <= p} = Pages'
      BY <3>2
    <3> QED BY <3>3, <3>4 DEF Nth
  <2>6. ASSUME NEW q \in Completions', NEW n \in DOMAIN messages'[q].ToolCalls
        PROVE  IF q + n \in DOMAIN messages'
               THEN /\ q + n \in Answers'
                    /\ messages'[q + n].ToolCallID = messages'[q].ToolCalls[n].id
                    /\ q + n \in Pages' => sources'[Nth(q + n)'] = messages'[q].ToolCalls[n].function.url
               ELSE find' \notin {"asking", "found"}
    <3>1. /\ q \in Completions /\ messages'[q] = messages[q] /\ q \in 1 .. L
          /\ n \in 1 .. Len(messages[q].ToolCalls) /\ n \in DOMAIN messages[q].ToolCalls
          /\ Len(messages[q].ToolCalls) \in Nat
      BY <1>9, <1>14
    <3>2. CASE q + n <= L
      <4>1. q + n \in 1 .. L
        BY <3>1, <3>2, <1>2
      <4>2. /\ q + n \in Answers /\ messages[q + n].ToolCallID = messages[q].ToolCalls[n].id
            /\ q + n \in Pages => sources[Nth(q + n)] = messages[q].ToolCalls[n].function.url
        BY <3>1, <4>1, <1>2, <1>a DEF TranscriptSound
      <4>3. messages'[q + n] = messages[q + n] /\ q + n \in DOMAIN messages'
        BY <4>1, <1>2, <1>8
      <4>4. q + n \in Pages' <=> q + n \in Pages
        BY <4>1, <1>2, <1>9
      <4> QED BY <4>2, <4>3, <4>4, <3>1, <2>4, <1>9
    <3>3. CASE q + n > L
      <4>1. q = c /\ messages[q].ToolCalls = Requested
        <5> SUFFICES ASSUME q # c PROVE FALSE
          BY <1>1
        <5>1. q + Len(messages[q].ToolCalls) <= L
          BY <3>1, <1>15
        <5> QED BY <5>1, <3>1, <3>3, <1>2
      <4>2. CASE n = n1
        <5>1. q + n = L + 1
          BY <4>1, <4>2, <1>1, <1>2
        <5>2. messages'[L + 1].ToolCallID = messages'[q].ToolCalls[n].id /\ L + 1 \in Answers' /\ L + 1 \in DOMAIN messages'
          BY <4>1, <4>2, <3>1, <1>2, <1>7, <1>8, <1>9
        <5>3. ASSUME q + n \in Pages'
              PROVE  sources'[Nth(q + n)'] = messages'[q].ToolCalls[n].function.url
          <6>1. r.result = "page"
            BY <5>1, <5>3, <2>2, <1>9
          <6>2. Nth(q + n)' = Len(sources) + 1
            BY <6>1, <5>1, <2>5
          <6>3. sources'[Len(sources) + 1] = Requested[n1].function.url
            BY <6>1, <1>6, <1>10, <1>11
          <6> QED BY <6>2, <6>3, <4>1, <4>2, <3>1
        <5> QED BY <5>1, <5>2, <5>3
      <4>3. CASE n # n1
        <5>1. n > n1 /\ q + n > L + 1
          BY <4>1, <4>3, <3>1, <3>3, <1>1, <1>2
        <5>2. q + n \notin DOMAIN messages' /\ find' = "calling"
          BY <5>1, <4>1, <3>1, <1>1, <1>2, <1>8, <1>12
        <5> QED BY <5>2
      <4> QED BY <4>2, <4>3
    <3> QED BY <3>1, <3>2, <3>3, <1>2
  <2> QED BY <2>1, <2>3, <2>6 DEF TranscriptSound
<1> QED BY <1>13, <1>16, <1>17 DEF FinderInv

\* An empty conversation.
LEMMA FinderStarts == SkillsInit => FinderInv
<1> SUFFICES ASSUME SkillsInit PROVE FinderInv
  OBVIOUS
<1>1. find = "idle" /\ step = 0 /\ messages = <<>> /\ answered = 0 /\ sources = <<>>
  BY DEF SkillsInit, FinderInit
<1>2. FinderTyped
  BY <1>1 DEF FinderTyped
<1>3. Completions = {} /\ Answers = {} /\ Pages = {}
  BY <1>1 DEF Completions, Answers, Pages
<1>4. TurnsDone
  BY <1>1, <1>3 DEF TurnsDone
<1>5. TranscriptSound
  BY <1>1, <1>3, FS_EmptySet DEF TranscriptSound
<1> QED BY <1>2, <1>4, <1>5 DEF FinderInv

\* Each turn of the loop answers the next call, or asks again when none is left.
LEMMA FinderSteps == FinderInv /\ [SkillsNext]_skillsVars => FinderInv'
<1> SUFFICES ASSUME FinderInv, [SkillsNext]_skillsVars PROVE FinderInv'
  OBVIOUS
<1>a. FinderTyped /\ TurnsDone /\ TranscriptSound
  BY DEF FinderInv
<1>1. CASE Complete
  BY <1>1, CompleteKeeps
<1>2. CASE Dispatch
  BY <1>2, DispatchKeeps
<1>3. CASE /\ UNCHANGED <<messages, answered, sources>> /\ step' \in Nat
           /\ \/ find = "asking" /\ find' = "failed"
              \/ find = "idle" /\ find' = "asking"
              \/ find' = find
  <2>1. /\ Completions' = Completions /\ Answers' = Answers /\ Pages' = Pages
        /\ Requested' = Requested /\ \A p : Nth(p)' = Nth(p)
    BY <1>3 DEF Completions, Answers, Pages, Requested, Nth
  <2>2. FinderTyped'
    BY <1>a, <1>3 DEF FinderTyped
  <2>3. TurnsDone'
    BY <1>a, <1>3, <2>1 DEF TurnsDone
  <2>4. ASSUME find # "calling", NEW q \in Completions, NEW n \in DOMAIN messages[q].ToolCalls
        PROVE  q + n \in DOMAIN messages
    <3>1. q \in 1 .. Len(messages) /\ DOMAIN messages = 1 .. Len(messages) /\ Len(messages) \in Nat
      BY <1>a DEF FinderTyped, Completions
    <3>2. messages[q] \in Message /\ messages[q].role = "assistant"
      BY <1>a, <3>1 DEF FinderTyped, Completions
    <3>3. n \in 1 .. Len(messages[q].ToolCalls) /\ Len(messages[q].ToolCalls) \in Nat
      BY <3>2 DEF Message
    <3>4. q + Len(messages[q].ToolCalls) <= Len(messages)
      BY <1>a, <2>4 DEF TurnsDone
    <3> QED BY <3>1, <3>3, <3>4
  <2>5. TranscriptSound'
    BY <1>a, <1>3, <2>1, <2>4 DEF TranscriptSound
  <2> QED BY <2>2, <2>3, <2>5 DEF FinderInv
<1>4. CASE FindReturns
  <2>1. find' = "idle" /\ step' = 0 /\ messages' = <<>> /\ answered' = 0 /\ sources' = <<>>
    BY <1>4 DEF FindReturns
  <2>2. FinderTyped'
    BY <2>1 DEF FinderTyped
  <2>3. Completions' = {} /\ Answers' = {} /\ Pages' = {}
    BY <2>1 DEF Completions, Answers, Pages
  <2>4. TurnsDone'
    BY <2>1, <2>3 DEF TurnsDone
  <2>5. TranscriptSound'
    BY <2>1, <2>3, FS_EmptySet DEF TranscriptSound
  <2> QED BY <2>2, <2>4, <2>5 DEF FinderInv
<1>5. CASE CompleteFails
  BY <1>3, <1>5, <1>a DEF CompleteFails, FinderTyped
<1>6. CASE CallFind
  BY <1>3, <1>6, <1>a DEF CallFind, FindBegins, FinderTyped
<1>7. CASE UNCHANGED finderVars
  BY <1>3, <1>7, <1>a DEF finderVars, FinderTyped
<1>8. CASE CallDownload \/ Walking \/ Fetch \/ DownloadReturns \/ UNCHANGED skillsVars
  BY <1>7, <1>8 DEF CallDownload, Walking, Fetch, DownloadReturns, skillsVars
<1> QED BY <1>1, <1>2, <1>4, <1>5, <1>6, <1>8 DEF SkillsNext, Working, Searching, FinderNext

\* The inductive invariant of the conversation holds in every reachable state.
THEOREM FinderInvariant == SkillsSpec => []FinderInv
BY FinderStarts, FinderSteps, PTL DEF SkillsSpec

\* However many round trips and calls there are, every call is answered once,
\* in turn, and the sources are the pages the model was shown.
THEOREM TranscriptAlwaysSound == SkillsSpec => []TranscriptSound
<1>1. FinderInv => TranscriptSound
  BY DEF FinderInv
<1> QED BY <1>1, FinderInvariant, PTL
-----------------------------------------------------------------------------
(***************************************************************************)
(* The directory walk.                                                     *)
(***************************************************************************)

\* The items of a type that the first calls of a stack have yet to go through,
\* each a call and a distance from the end of its listing.
Left(st, type, deepest) ==
  {x \in (1 .. Len(st)) \X Nat :
     /\ x[1] <= deepest
     /\ x[2] \in 1 .. Len(st[x[1]])
     /\ st[x[1]][Len(st[x[1]]) + 1 - x[2]] = type}

WalkTyped ==
  /\ walk \in {"idle", "asking", "walking", "listed", "failed"}
  /\ stack \in Seq(Seq(Types))
  /\ acc \in Nat /\ shown \in Nat /\ unasked \in Int

Limits ==
  /\ acc <= maxSkillFiles /\ Len(stack) <= maxSkillDepth + 1
  /\ walk \in {"asking", "walking"} => stack # <<>>
  /\ walk = "asking" => Unseen = <<>>
  /\ walk = "listed" => stack = <<>>
  /\ walk = "idle" => stack = <<>> /\ acc = 0

\* Files shown are taken or still ahead, and directories without a request are
\* still ahead, as long as nothing was broken off.
Accounted ==
  acc < maxSkillFiles =>
    LET unread == Left(stack, "file", maxSkillDepth + 1)
        unopened == Left(stack, "dir", maxSkillDepth)
    IN  /\ IsFiniteSet(unread) /\ shown = acc + Cardinality(unread)
        /\ IsFiniteSet(unopened) /\ unasked = Cardinality(unopened)

WalkInv == WalkTyped /\ Limits /\ Accounted

Stacks == Seq(Seq(Types)) \ {<<>>}

\* Going past an item takes it, and nothing else, from what is left.
LEMMA LeftPast ==
  ASSUME NEW st \in Stacks, st[Len(st)] # <<>>, NEW type, NEW deepest \in Nat
  PROVE  LET L == Len(st)
             past == [st EXCEPT ![L] = Tail(@)]
         IN  /\ past \in Stacks /\ Len(past) = L
             /\ Left(past, type, deepest) = Left(st, type, deepest) \ {<<L, Len(st[L])>>}
             /\ <<L, Len(st[L])>> \in Left(st, type, deepest)
                  <=> L <= deepest /\ Head(st[L]) = type
<1> DEFINE L == Len(st)
           past == [st EXCEPT ![L] = Tail(@)]
           e == <<L, Len(st[L])>>
<1>1. L \in Nat /\ L > 0 /\ L \in DOMAIN st /\ DOMAIN st = 1 .. L /\ \A d \in 1 .. L : st[d] \in Seq(Types)
  BY DEF Stacks
<1>2. st[L] \in Seq(Types) /\ Len(st[L]) \in Nat /\ Len(st[L]) > 0
  BY <1>1
<1>3. Tail(st[L]) \in Seq(Types) /\ Len(Tail(st[L])) = Len(st[L]) - 1
      /\ \A n \in 1 .. Len(st[L]) - 1 : Tail(st[L])[n] = st[L][n + 1]
  BY <1>2
<1>4. past \in Stacks /\ Len(past) = L /\ past[L] = Tail(st[L]) /\ \A d \in 1 .. L : d # L => past[d] = st[d]
  <2>1. DOMAIN past = 1 .. L /\ past[L] = Tail(st[L]) /\ \A d \in 1 .. L : d # L => past[d] = st[d]
    BY <1>1
  <2>2. \A d \in 1 .. L : past[d] \in Seq(Types)
    BY <2>1, <1>1, <1>3
  <2>3. past \in [1 .. L -> Seq(Types)]
    BY <2>1, <2>2
  <2> HIDE DEF past
  <2>4. past \in Seq(Seq(Types)) /\ Len(past) = L
    BY <2>3, <1>1
  <2>5. past # <<>>
    BY <2>4, <1>1
  <2> QED BY <2>1, <2>4, <2>5 DEF Stacks
<1>5. e \in Left(st, type, deepest) <=> L <= deepest /\ Head(st[L]) = type
  <2>1. Len(st[L]) + 1 - Len(st[L]) = 1 /\ Head(st[L]) = st[L][1]
    BY <1>2
  <2>2. e[1] = L /\ e[2] = Len(st[L]) /\ e \in (1 .. L) \X Nat
    BY <1>1, <1>2
  <2> QED BY <2>1, <2>2, <1>2 DEF Left
<1>6. ASSUME NEW d \in 1 .. L, NEW k \in Nat
      PROVE  <<d, k>> \in Left(past, type, deepest) <=> <<d, k>> \in Left(st, type, deepest) /\ <<d, k>> # e
  <2> HIDE DEF past
  <2>1. CASE d # L
    BY <2>1, <1>1, <1>4 DEF Left
  <2>2. CASE d = L
    <3>1. <<d, k>> \in Left(past, type, deepest) <=>
            /\ L <= deepest /\ k \in 1 .. Len(st[L]) - 1
            /\ Tail(st[L])[Len(st[L]) - k] = type
      <4>1. <<d, k>> \in Left(past, type, deepest) <=>
              /\ L <= deepest /\ k \in 1 .. Len(Tail(st[L]))
              /\ Tail(st[L])[Len(Tail(st[L])) + 1 - k] = type
        BY <2>2, <1>1, <1>4 DEF Left
      <4>2. Len(Tail(st[L])) + 1 - k = Len(st[L]) - k
        BY <1>2, <1>3
      <4> QED BY <4>1, <4>2, <1>3
    <3>2. <<d, k>> \in Left(st, type, deepest) <=>
            /\ L <= deepest /\ k \in 1 .. Len(st[L])
            /\ st[L][Len(st[L]) + 1 - k] = type
      BY <2>2, <1>1 DEF Left
    <3>3. k \in 1 .. Len(st[L]) - 1 => Tail(st[L])[Len(st[L]) - k] = st[L][Len(st[L]) + 1 - k]
      <4> SUFFICES ASSUME k \in 1 .. Len(st[L]) - 1
                   PROVE  Tail(st[L])[Len(st[L]) - k] = st[L][Len(st[L]) + 1 - k]
        OBVIOUS
      <4>1. Len(st[L]) - k \in 1 .. Len(st[L]) - 1 /\ (Len(st[L]) - k) + 1 = Len(st[L]) + 1 - k
        BY <1>2
      <4> QED BY <4>1, <1>3
    <3>4. <<d, k>> # e <=> k # Len(st[L])
      BY <2>2
    <3>5. k \in 1 .. Len(st[L]) /\ k # Len(st[L]) <=> k \in 1 .. Len(st[L]) - 1
      BY <1>2
    <3> QED BY <3>1, <3>2, <3>3, <3>4, <3>5
  <2> QED BY <2>1, <2>2
<1>7. Left(past, type, deepest) = Left(st, type, deepest) \ {e}
  <2>1. Left(past, type, deepest) \subseteq (1 .. L) \X Nat /\ Left(st, type, deepest) \subseteq (1 .. L) \X Nat
    BY <1>4 DEF Left
  <2> HIDE DEF past, e
  <2> QED BY <2>1, <1>6
<1> QED BY <1>4, <1>5, <1>7

\* What is ahead, place by place.
LEMMA InLeft ==
  ASSUME NEW st, NEW type, NEW deepest, NEW d, NEW k
  PROVE  <<d, k>> \in Left(st, type, deepest) <=>
           /\ d \in 1 .. Len(st) /\ d <= deepest
           /\ k \in Nat /\ k \in 1 .. Len(st[d])
           /\ st[d][Len(st[d]) + 1 - k] = type
BY DEF Left

\* Stacks with the same places ahead have the same left.
LEMMA SameLeft ==
  ASSUME NEW st, NEW su, NEW type, NEW deepest, Len(st) \in Nat, Len(su) \in Nat,
         \A d \in Nat : \A k \in Nat :
           <<d, k>> \in Left(st, type, deepest) <=> <<d, k>> \in Left(su, type, deepest)
  PROVE  Left(st, type, deepest) = Left(su, type, deepest)
<1>1. Left(st, type, deepest) \subseteq Nat \X Nat /\ Left(su, type, deepest) \subseteq Nat \X Nat
  BY DEF Left
<1> DEFINE A == Left(st, type, deepest)
           B == Left(su, type, deepest)
<1>2. A \subseteq Nat \X Nat /\ B \subseteq Nat \X Nat /\ \A d \in Nat : \A k \in Nat : <<d, k>> \in A <=> <<d, k>> \in B
  BY <1>1
<1> HIDE DEF A, B
<1>3. ASSUME NEW x \in Nat \X Nat PROVE x \in A <=> x \in B
  <2>1. x = <<x[1], x[2]>> /\ x[1] \in Nat /\ x[2] \in Nat
    OBVIOUS
  <2> QED BY <2>1, <1>2
<1>4. A = B
  BY <1>2, <1>3
<1> QED BY <1>4 DEF A, B

\* A call begins with nothing to go through, and ends with nothing left.
LEMMA LeftEmptyTop ==
  ASSUME NEW st \in Seq(Seq(Types)), NEW type, NEW deepest \in Nat
  PROVE  /\ Append(st, <<>>) \in Stacks /\ Len(Append(st, <<>>)) = Len(st) + 1
         /\ Append(st, <<>>)[Len(st) + 1] = <<>>
         /\ Left(Append(st, <<>>), type, deepest) = Left(st, type, deepest)
<1> DEFINE L == Len(st)
           opened == Append(st, <<>>)
<1>1. /\ L \in Nat /\ Len(opened) = L + 1 /\ opened[L + 1] = <<>>
      /\ \A d \in 1 .. L : opened[d] = st[d] /\ opened[d] \in Seq(Types)
      /\ opened \in Seq(Seq(Types))
  OBVIOUS
<1>0. L \in Nat /\ Len(opened) = L + 1
  BY <1>1
<1>2. opened # <<>>
  BY <1>0
<1> HIDE DEF opened
<1>3. ASSUME NEW d \in Nat, NEW k \in Nat
      PROVE  <<d, k>> \in Left(opened, type, deepest) <=> <<d, k>> \in Left(st, type, deepest)
  <2>1. CASE d \in 1 .. L
    <3>1. opened[d] = st[d] /\ d \in 1 .. Len(opened) /\ d \in 1 .. L
      BY <2>1, <1>1
    <3> QED BY <3>1, InLeft
  <2>2. CASE d = L + 1
    <3>1. Len(opened[d]) = 0
      BY <2>2, <1>1
    <3> QED BY <2>2, <3>1, <1>1 DEF Left
  <2>3. CASE d \notin 1 .. L + 1
    <3>1. d \notin 1 .. L /\ d \notin 1 .. Len(opened)
      BY <2>3, <1>0
    <3> QED BY <3>1, InLeft
  <2>4. d \in 1 .. L \/ d = L + 1 \/ d \notin 1 .. L + 1
    BY <1>0
  <2> QED BY <2>1, <2>2, <2>3, <2>4
<1>4. Left(opened, type, deepest) = Left(st, type, deepest)
  BY <1>0, <1>3, SameLeft
<1> QED BY <1>1, <1>2, <1>4 DEF Stacks, opened

\* A listing that is used up has nothing left.
LEMMA LeftReturned ==
  ASSUME NEW st \in Stacks, NEW type, NEW deepest \in Nat
  PROVE  LET back == SubSeq(st, 1, Len(st) - 1)
         IN  /\ back \in Seq(Seq(Types)) /\ Len(back) = Len(st) - 1
             /\ st[Len(st)] = <<>> => Left(back, type, deepest) = Left(st, type, deepest)
<1> DEFINE L == Len(st)
           back == SubSeq(st, 1, L - 1)
<1>0. L \in Nat /\ L > 0
  BY DEF Stacks
<1>1. \A d \in 1 .. L : st[d] \in Seq(Types)
  BY DEF Stacks
<1>2. back \in Seq(Seq(Types)) /\ Len(back) = L - 1 /\ \A d \in 1 .. L - 1 : back[d] = st[d]
  <2>1. \A d \in 1 .. L - 1 : st[d] \in Seq(Types)
    BY <1>0, <1>1
  <2>2. /\ back \in Seq(Seq(Types))
        /\ Len(back) = IF 1 <= L - 1 THEN (L - 1) - 1 + 1 ELSE 0
        /\ \A d \in 1 .. (L - 1) - 1 + 1 : back[d] = st[1 + d - 1]
    BY <2>1, <1>0, SubSeqProperties
  <2> HIDE DEF back
  <2>3. ASSUME NEW d \in 1 .. L - 1 PROVE back[d] = st[d]
    <3>1. d \in 1 .. (L - 1) - 1 + 1 /\ 1 + d - 1 = d
      BY <1>0
    <3>2. back[d] = st[1 + d - 1]
      BY <3>1, <2>2
    <3> QED BY <3>1, <3>2
  <2>4. Len(back) = L - 1
    <3>1. CASE L = 1
      BY <3>1, <2>2
    <3>2. CASE L > 1
      <4>1. Len(back) = (L - 1) - 1 + 1
        BY <3>2, <2>2, <1>0
      <4> QED BY <4>1, <1>0
    <3>3. L = 1 \/ L > 1
      <4> HIDE DEF L
      <4> QED BY <1>0
    <3> QED BY <3>1, <3>2, <3>3
  <2> QED BY <2>2, <2>3, <2>4
<1> HIDE DEF back
<1>3. ASSUME st[L] = <<>>, NEW d \in Nat, NEW k \in Nat
      PROVE  <<d, k>> \in Left(back, type, deepest) <=> <<d, k>> \in Left(st, type, deepest)
  <2>1. CASE d \in 1 .. L - 1
    <3>1. back[d] = st[d] /\ d \in 1 .. Len(back) /\ d \in 1 .. L
      BY <2>1, <1>0, <1>2
    <3> QED BY <3>1, InLeft
  <2>2. CASE d = L
    <3>1. Len(st[d]) = 0
      BY <2>2, <1>3
    <3> QED BY <2>2, <3>1, <1>0, <1>2 DEF Left
  <2>3. CASE d \notin 1 .. L
    <3>1. d \notin 1 .. L /\ d \notin 1 .. Len(back)
      BY <2>3, <1>0, <1>2
    <3> QED BY <3>1, InLeft
  <2>4. d \in 1 .. L - 1 \/ d = L \/ d \notin 1 .. L
    BY <1>0
  <2> QED BY <2>1, <2>2, <2>3, <2>4
<1>4. st[L] = <<>> => Left(back, type, deepest) = Left(st, type, deepest)
  BY <1>0, <1>2, <1>3, SameLeft
<1> QED BY <1>2, <1>4 DEF back

\* A listing adds its items of a type to what is left, each one once.
LEMMA LeftListed ==
  ASSUME NEW st \in Stacks, st[Len(st)] = <<>>, NEW items \in Seq(Types),
         NEW type, NEW deepest \in Nat
  PROVE  LET L == Len(st)
             listed == [st EXCEPT ![L] = items]
         IN  /\ listed \in Stacks /\ Len(listed) = L /\ HowMany(items, type) \in Nat
             /\ IsFiniteSet(Left(st, type, deepest)) =>
                  /\ IsFiniteSet(Left(listed, type, deepest))
                  /\ Cardinality(Left(listed, type, deepest)) =
                       Cardinality(Left(st, type, deepest)) 
                         + IF L <= deepest THEN HowMany(items, type) ELSE 0
<1> DEFINE L == Len(st)
           listed == [st EXCEPT ![L] = items]
           H == {n \in DOMAIN items : items[n] = type}
           M == Len(items)
           New == {x \in {L} \X Nat : L <= deepest /\ x[2] \in 1 .. M /\ items[M + 1 - x[2]] = type}
<1>1. L \in Nat /\ L > 0 /\ L \in 1 .. L /\ \A d \in 1 .. L : st[d] \in Seq(Types)
  BY DEF Stacks
<1>2. M \in Nat /\ DOMAIN items = 1 .. M
  OBVIOUS
<1>3. listed \in Stacks /\ Len(listed) = L /\ listed[L] = items /\ \A d \in 1 .. L : d # L => listed[d] = st[d]
  <2>1. DOMAIN listed = 1 .. L /\ listed[L] = items /\ \A d \in 1 .. L : d # L => listed[d] = st[d]
    BY <1>1 DEF Stacks
  <2>2. \A d \in 1 .. L : listed[d] \in Seq(Types)
    BY <2>1, <1>1
  <2>3. listed \in [1 .. L -> Seq(Types)]
    BY <2>1, <2>2
  <2> HIDE DEF listed
  <2>4. listed \in Seq(Seq(Types)) /\ Len(listed) = L
    BY <2>3, <1>1
  <2>5. listed # <<>>
    BY <2>4, <1>1
  <2> QED BY <2>1, <2>4, <2>5 DEF Stacks
<1> HIDE DEF listed
<1>4. IsFiniteSet(H) /\ Cardinality(H) \in Nat
  <2>1. IsFiniteSet(1 .. M)
    BY <1>2, FS_Interval
  <2>2. H \in SUBSET (1 .. M)
    BY <1>2
  <2>3. IsFiniteSet(H)
    BY <2>1, <2>2, FS_Subset
  <2> QED BY <2>3, FS_CardinalityType
<1>5. IsFiniteSet(New) /\ Cardinality(New) = IF L <= deepest THEN Cardinality(H) ELSE 0
  <2>1. CASE L <= deepest
    <3> DEFINE f == [n \in H |-> <<L, M + 1 - n>>]
    <3>1. f \in [H -> New]
      <4> SUFFICES ASSUME NEW n \in H PROVE <<L, M + 1 - n>> \in New
        OBVIOUS
      <4>1. n \in 1 .. M /\ M + 1 - n \in 1 .. M /\ M + 1 - (M + 1 - n) = n /\ M + 1 - n \in Nat
        BY <1>2
      <4> QED BY <4>1, <2>1
    <3>2. \A a, b \in H : f[a] = f[b] => a = b
      <4> SUFFICES ASSUME NEW a \in H, NEW b \in H, f[a] = f[b] PROVE a = b
        OBVIOUS
      <4>1. M + 1 - a = M + 1 - b
        OBVIOUS
      <4> QED BY <4>1, <1>2
    <3>3. ASSUME NEW x \in New PROVE \E n \in H : f[n] = x
      <4>1. x = <<L, x[2]>> /\ x[2] \in 1 .. M /\ items[M + 1 - x[2]] = type
        OBVIOUS
      <4>2. M + 1 - x[2] \in 1 .. M /\ M + 1 - (M + 1 - x[2]) = x[2]
        BY <4>1, <1>2
      <4>3. M + 1 - x[2] \in H
        BY <4>1, <4>2, <1>2
      <4> WITNESS M + 1 - x[2] \in H
      <4> QED BY <4>1, <4>2, <4>3
    <3> HIDE DEF f, New, H
    <3>4. f \in Bijection(H, New)
      BY <3>1, <3>2, <3>3, Fun_IsBij
    <3>5. ExistsBijection(H, New)
      BY <3>4 DEF ExistsBijection
    <3> QED BY <3>5, <1>4, <2>1, FS_Bijection
  <2>2. CASE ~(L <= deepest)
    BY <2>2, FS_EmptySet
  <2> QED BY <2>1, <2>2
<1>6. Left(listed, type, deepest) = Left(st, type, deepest) \cup New /\ Left(st, type, deepest) \cap New = {}
  <2>1. ASSUME NEW d \in 1 .. L, NEW k \in Nat
        PROVE  /\ <<d, k>> \in Left(listed, type, deepest) <=>
                    <<d, k>> \in Left(st, type, deepest) \/ <<d, k>> \in New
               /\ ~(<<d, k>> \in Left(st, type, deepest) /\ <<d, k>> \in New)
    <3>1. CASE d # L
      BY <3>1, <1>1, <1>3 DEF Left
    <3>2. CASE d = L
      <4>1. Len(st[d]) = 0
        BY <3>2
      <4>2. <<d, k>> \notin Left(st, type, deepest)
        BY <4>1 DEF Left
      <4>3. <<d, k>> \in Left(listed, type, deepest) <=>
              L <= deepest /\ k \in 1 .. M /\ items[M + 1 - k] = type
        BY <3>2, <1>1, <1>3 DEF Left
      <4>4. <<d, k>> \in New <=> L <= deepest /\ k \in 1 .. M /\ items[M + 1 - k] = type
        BY <3>2
      <4> QED BY <4>2, <4>3, <4>4
    <3> QED BY <3>1, <3>2
  <2>2. /\ Left(listed, type, deepest) \subseteq (1 .. L) \X Nat
        /\ Left(st, type, deepest) \subseteq (1 .. L) \X Nat
        /\ New \subseteq (1 .. L) \X Nat
    BY <1>1, <1>3 DEF Left
  <2> HIDE DEF New
  <2> QED BY <2>1, <2>2
<1>7. ASSUME IsFiniteSet(Left(st, type, deepest))
      PROVE  /\ IsFiniteSet(Left(listed, type, deepest))
             /\ Cardinality(Left(listed, type, deepest)) =
                  Cardinality(Left(st, type, deepest)) + Cardinality(New)
  <2> HIDE DEF New
  <2>1. Cardinality(Left(st, type, deepest) \cap New) = 0
    BY <1>6, FS_EmptySet
  <2>2. Cardinality(Left(st, type, deepest)) \in Nat /\ Cardinality(New) \in Nat
    BY <1>5, <1>7, FS_CardinalityType
  <2>3. /\ IsFiniteSet(Left(st, type, deepest) \cup New)
        /\ Cardinality(Left(st, type, deepest) \cup New) =
             Cardinality(Left(st, type, deepest)) + Cardinality(New)
                - Cardinality(Left(st, type, deepest) \cap New)
    BY <1>5, <1>7, FS_Union
  <2> QED BY <2>1, <2>2, <2>3, <1>6
<1> HIDE DEF New, H
<1> QED BY <1>3, <1>4, <1>5, <1>7 DEF listed, H, HowMany

\* Nothing is ahead on an empty stack.
LEMMA LeftOfNone ==
  ASSUME NEW type, NEW deepest
  PROVE  /\ Left(<<>>, type, deepest) = {}
         /\ IsFiniteSet(Left(<<>>, type, deepest))
         /\ Cardinality(Left(<<>>, type, deepest)) = 0
<1>1. Left(<<>>, type, deepest) = {}
  BY DEF Left
<1> QED BY <1>1, FS_EmptySet

\* What a step leaves ahead of the walk: the same, or all but the next item.
LEMMA PastItem ==
  ASSUME WalkInv, acc < maxSkillFiles, walk = "walking", Unseen # <<>>
  PROVE  LET unread   == Left(stack, "file", maxSkillDepth + 1)
             unopened == Left(stack, "dir", maxSkillDepth)
         IN  /\ Rest \in Stacks /\ Len(Rest) = Len(stack)
             /\ Head(Unseen) \in Types
             /\ IsFiniteSet(Left(Rest, "file", maxSkillDepth + 1))
             /\ IsFiniteSet(Left(Rest, "dir", maxSkillDepth))
             /\ Cardinality(Left(Rest, "file", maxSkillDepth + 1)) =
                  Cardinality(unread) - IF Head(Unseen) = "file" THEN 1 ELSE 0
             /\ Cardinality(Left(Rest, "dir", maxSkillDepth)) =
                  Cardinality(unopened)
                    - IF Head(Unseen) = "dir" /\ Within(depth + 1) THEN 1 ELSE 0
<1> USE WalkAssumption
<1> DEFINE unread   == Left(stack, "file", maxSkillDepth + 1)
           unopened == Left(stack, "dir", maxSkillDepth)
           e == <<Len(stack), Len(Unseen)>>
<1>1. /\ stack \in Stacks /\ Len(stack) \in Nat /\ Len(stack) <= maxSkillDepth + 1
      /\ maxSkillDepth \in Nat /\ maxSkillDepth + 1 \in Nat
      /\ IsFiniteSet(unread) /\ IsFiniteSet(unopened)
  BY DEF WalkInv, WalkTyped, Limits, Accounted, Stacks
<1>2. Head(Unseen) \in Types
  <2>1. Len(stack) \in 1 .. Len(stack)
    BY <1>1 DEF Stacks
  <2>2. Unseen \in Seq(Types)
    BY <1>1, <2>1 DEF Unseen, Stacks
  <2> QED BY <2>2
<1>3. /\ Rest \in Stacks /\ Len(Rest) = Len(stack)
      /\ Left(Rest, "file", maxSkillDepth + 1) = unread \ {e}
      /\ e \in unread <=> Len(stack) <= maxSkillDepth + 1 /\ Head(Unseen) = "file"
  BY <1>1, LeftPast DEF Rest, Unseen
<1>4. /\ Left(Rest, "dir", maxSkillDepth) = unopened \ {e}
      /\ e \in unopened <=> Len(stack) <= maxSkillDepth /\ Head(Unseen) = "dir"
  BY <1>1, LeftPast DEF Rest, Unseen
<1>5. Within(depth + 1) <=> Len(stack) <= maxSkillDepth
  BY <1>1 DEF Within, depth
<1>6. Cardinality(unread) \in Nat /\ Cardinality(unopened) \in Nat
  BY <1>1, FS_CardinalityType
<1> HIDE DEF unread, unopened, e
<1>7. /\ IsFiniteSet(unread \ {e}) /\ IsFiniteSet(unopened \ {e})
      /\ Cardinality(unread \ {e}) = Cardinality(unread) - IF e \in unread THEN 1 ELSE 0
      /\ Cardinality(unopened \ {e}) = Cardinality(unopened) - IF e \in unopened THEN 1 ELSE 0
  BY <1>1, <1>6, FS_RemoveElement
<1> QED BY <1>1, <1>2, <1>3, <1>4, <1>5, <1>7 DEF unread, unopened

\* No walk is under way.
LEMMA WalkStarts == SkillsInit => WalkInv
<1> SUFFICES ASSUME SkillsInit PROVE WalkInv
  OBVIOUS
<1> USE WalkAssumption
<1>1. walk = "idle" /\ stack = <<>> /\ acc = 0 /\ shown = 0 /\ unasked = 0
  BY DEF SkillsInit, WalkInit
<1> QED BY <1>1, LeftOfNone DEF WalkInv, WalkTyped, Limits, Accounted

\* Each step of the walk passes one entry, or opens a listing, or closes one.
LEMMA WalkSteps == WalkInv /\ [SkillsNext]_skillsVars => WalkInv'
<1> SUFFICES ASSUME WalkInv, [SkillsNext]_skillsVars PROVE WalkInv'
  OBVIOUS
<1> USE WalkAssumption
<1> DEFINE unread   == Left(stack, "file", maxSkillDepth + 1)
           unopened == Left(stack, "dir", maxSkillDepth)
<1>a. WalkTyped /\ Limits /\ Accounted
  BY DEF WalkInv
<1>b. /\ Len(stack) \in Nat /\ stack \in Seq(Seq(Types)) /\ acc \in Nat /\ shown \in Nat /\ unasked \in Int
      /\ acc <= maxSkillFiles /\ Len(stack) <= maxSkillDepth + 1
  BY <1>a DEF WalkTyped, Limits
<1>c. walk \in {"asking", "walking"} => stack \in Stacks
  BY <1>a DEF WalkTyped, Limits, Stacks
<1>d. acc < maxSkillFiles => /\ IsFiniteSet(unread) /\ shown = acc + Cardinality(unread)
                             /\ IsFiniteSet(unopened) /\ unasked = Cardinality(unopened)
                             /\ Cardinality(unread) \in Nat /\ Cardinality(unopened) \in Nat
  BY <1>a, FS_CardinalityType DEF Accounted
<1>e. maxSkillDepth \in Nat /\ maxSkillDepth + 1 \in Nat
  OBVIOUS
<1>1. CASE Listed
  <2>1. PICK items \in Listings :
          /\ stack' = [stack EXCEPT ![Len(stack)] = items]
          /\ shown' = shown + HowMany(items, "file")
          /\ unasked' = unasked + IF Within(depth + 1) THEN HowMany(items, "dir") ELSE 0
    BY <1>1 DEF Listed
  <2>2. /\ walk = "asking" /\ walk' = "walking" /\ acc' = acc
        /\ stack \in Stacks /\ stack[Len(stack)] = <<>>
    BY <1>1, <1>a, <1>c DEF Listed, Limits, Unseen
  <2>3. items \in Seq(Types)
    BY <2>1 DEF Listings
  <2>4. /\ stack' \in Stacks /\ Len(stack') = Len(stack)
        /\ HowMany(items, "file") \in Nat
        /\ IsFiniteSet(unread) =>
             /\ IsFiniteSet(Left(stack', "file", maxSkillDepth + 1))
             /\ Cardinality(Left(stack', "file", maxSkillDepth + 1)) =
                  Cardinality(unread) + IF Len(stack) <= maxSkillDepth + 1
                    THEN HowMany(items, "file") ELSE 0
    <3> DEFINE listed  == [stack EXCEPT ![Len(stack)] = items]
               deepest == maxSkillDepth + 1
    <3>1. deepest \in Nat
      BY <1>e
    <3> HIDE DEF deepest
    <3>2. /\ listed \in Stacks /\ Len(listed) = Len(stack)
          /\ HowMany(items, "file") \in Nat
          /\ IsFiniteSet(Left(stack, "file", deepest)) =>
               /\ IsFiniteSet(Left(listed, "file", deepest))
               /\ Cardinality(Left(listed, "file", deepest)) =
                    Cardinality(Left(stack, "file", deepest))
                      + IF Len(stack) <= deepest THEN HowMany(items, "file") ELSE 0
      BY <2>2, <2>3, <3>1, LeftListed
    <3> QED BY <2>1, <3>2 DEF deepest
  <2>5. /\ HowMany(items, "dir") \in Nat
        /\ IsFiniteSet(unopened) =>
             /\ IsFiniteSet(Left(stack', "dir", maxSkillDepth))
             /\ Cardinality(Left(stack', "dir", maxSkillDepth)) =
                  Cardinality(unopened) + IF Len(stack) <= maxSkillDepth
                    THEN HowMany(items, "dir") ELSE 0
    <3> DEFINE listed == [stack EXCEPT ![Len(stack)] = items]
    <3>1. /\ HowMany(items, "dir") \in Nat
          /\ IsFiniteSet(unopened) =>
               /\ IsFiniteSet(Left(listed, "dir", maxSkillDepth))
               /\ Cardinality(Left(listed, "dir", maxSkillDepth)) =
                    Cardinality(unopened) + IF Len(stack) <= maxSkillDepth
                      THEN HowMany(items, "dir") ELSE 0
      BY <1>e, <2>2, <2>3, LeftListed
    <3> QED BY <2>1, <3>1
  <2>6. Within(depth + 1) <=> Len(stack) <= maxSkillDepth
    BY <1>b DEF Within, depth
  <2>7. WalkTyped'
    <3>1. shown' \in Nat
      BY <1>b, <2>1, <2>4
    <3>2. unasked' \in Int
      BY <1>b, <2>1, <2>5
    <3> QED BY <1>b, <2>2, <2>4, <3>1, <3>2 DEF WalkTyped, Stacks
  <2>8. Limits'
    BY <1>b, <2>2, <2>4 DEF Limits, Stacks
  <2>9. Accounted'
    <3> SUFFICES ASSUME acc < maxSkillFiles PROVE Accounted'
      BY <2>2 DEF Accounted
    <3>1. shown' = acc' + Cardinality(Left(stack', "file", maxSkillDepth + 1))
      BY <1>b, <1>d, <2>1, <2>2, <2>4
    <3>2. unasked' = Cardinality(Left(stack', "dir", maxSkillDepth))
      BY <1>d, <2>1, <2>5, <2>6
    <3> QED BY <1>d, <2>4, <2>5, <3>1, <3>2 DEF Accounted
  <2> QED BY <2>7, <2>8, <2>9 DEF WalkInv
<1>2. CASE Take \/ Pass \/ Enter
  <2>1. /\ walk = "walking" /\ Unseen # <<>> /\ acc < maxSkillFiles /\ stack \in Stacks
        /\ shown' = shown
    BY <1>2, <1>c DEF Take, Pass, Enter
  <2>2. /\ Rest \in Stacks /\ Len(Rest) = Len(stack)
        /\ Head(Unseen) \in Types
        /\ IsFiniteSet(Left(Rest, "file", maxSkillDepth + 1))
        /\ IsFiniteSet(Left(Rest, "dir", maxSkillDepth))
        /\ Cardinality(Left(Rest, "file", maxSkillDepth + 1)) =
             Cardinality(unread) - IF Head(Unseen) = "file" THEN 1 ELSE 0
        /\ Cardinality(Left(Rest, "dir", maxSkillDepth)) =
             Cardinality(unopened)
               - IF Head(Unseen) = "dir" /\ Within(depth + 1) THEN 1 ELSE 0
    BY <2>1, PastItem
  <2> HIDE DEF unread, unopened
  <2>3. CASE (Take \/ Pass \/ Enter) /\ stack' = Rest
    <3>1. WalkTyped'
      BY <1>2, <1>a, <2>2, <2>3 DEF Take, Pass, Enter, WalkTyped, Stacks
    <3>2. Limits'
      BY <1>2, <1>b, <2>1, <2>2, <2>3 DEF Take, Pass, Enter, Limits, Stacks
    <3>3. shown' = acc' + Cardinality(Left(stack', "file", maxSkillDepth + 1))
      BY <1>2, <1>b, <1>d, <2>1, <2>2, <2>3 DEF Take, Pass, Enter
    <3>4. unasked' = Cardinality(Left(stack', "dir", maxSkillDepth))
      BY <1>2, <1>b, <1>d, <2>1, <2>2, <2>3 DEF Take, Pass, Enter
    <3> QED BY <2>2, <2>3, <3>1, <3>2, <3>3, <3>4 DEF WalkInv, Accounted
  <2>4. CASE Enter /\ Within(depth + 1)
    <3>1. /\ Head(Unseen) = "dir" /\ stack' = Append(Rest, <<>>) /\ walk' = "asking"
          /\ unasked' = unasked - 1 /\ acc' = acc
      BY <2>4 DEF Enter
    <3>2. Rest \in Seq(Seq(Types))
      BY <2>2 DEF Stacks
    <3>3. /\ stack' \in Stacks /\ Len(stack') = Len(stack) + 1 /\ stack'[Len(stack')] = <<>>
          /\ Left(stack', "file", maxSkillDepth + 1) = Left(Rest, "file", maxSkillDepth + 1)
          /\ Left(stack', "dir", maxSkillDepth) = Left(Rest, "dir", maxSkillDepth)
      BY <2>2, <3>1, <3>2, LeftEmptyTop
    <3>4. WalkTyped'
      BY <1>b, <2>1, <3>1, <3>3 DEF WalkTyped, Stacks
    <3>5. Limits'
      <4>1. Len(stack) + 1 <= maxSkillDepth + 1
        BY <1>b, <2>4 DEF Within, depth
      <4> QED BY <4>1, <1>b, <3>1, <3>3 DEF Limits, Stacks, Unseen
    <3>6. Accounted'
      <4>1. shown' = acc' + Cardinality(Left(stack', "file", maxSkillDepth + 1))
        BY <1>b, <1>d, <2>1, <2>2, <3>1, <3>3
      <4>2. unasked' = Cardinality(Left(stack', "dir", maxSkillDepth))
        BY <1>b, <1>d, <2>1, <2>2, <2>4, <3>1, <3>3
      <4> QED BY <2>2, <3>3, <4>1, <4>2 DEF Accounted
    <3> QED BY <3>4, <3>5, <3>6 DEF WalkInv
  <2> QED BY <1>2, <2>3, <2>4 DEF Take, Pass, Enter
<1>3. CASE Return
  <2>1. /\ stack \in Stacks /\ walk = "walking"
        /\ Unseen = <<>> \/ acc >= maxSkillFiles
        /\ stack' = SubSeq(stack, 1, Len(stack) - 1)
        /\ UNCHANGED <<acc, shown, unasked>>
    BY <1>3, <1>c DEF Return
  <2>2. Len(stack) # 0
    BY <2>1, <1>b DEF Stacks
  <2>3. walk' = IF Len(stack) > 1 THEN "walking" ELSE IF acc = 0 THEN "failed" ELSE "listed"
    <3> DEFINE L == Len(stack)
    <3>1. L # 0 /\ L \in Nat
      BY <1>b, <2>2
    <3>2. (L > 1 => L # 1) /\ (~(L > 1) => L = 1)
      <4> HIDE DEF L
      <4> QED BY <3>1
    <3>3. CASE L > 1
      BY <3>2, <3>3, <1>3 DEF Return
    <3>4. CASE ~(L > 1)
      BY <3>2, <3>4, <1>3 DEF Return
    <3> QED BY <3>3, <3>4
  <2>4. /\ stack' \in Seq(Seq(Types)) /\ Len(stack') = Len(stack) - 1
        /\ stack[Len(stack)] = <<>> =>
             /\ Left(stack', "file", maxSkillDepth + 1) = unread
             /\ Left(stack', "dir", maxSkillDepth) = unopened
    BY <1>e, <2>1, LeftReturned DEF Unseen
  <2>5. WalkTyped'
    BY <1>b, <2>1, <2>3, <2>4 DEF WalkTyped
  <2>6. Limits'
    <3>1. Len(stack') = 0 <=> stack' = <<>>
      BY <2>4
    <3>2. Len(stack) > 1 \/ Len(stack') = 0
      BY <1>b, <2>2, <2>4
    <3> QED BY <3>1, <3>2, <1>b, <2>1, <2>3, <2>4 DEF Limits
  <2>7. Accounted'
    BY <1>b, <1>d, <2>1, <2>4 DEF Accounted, Unseen
  <2> QED BY <2>5, <2>6, <2>7 DEF WalkInv
<1>4. CASE CallDownload
  <2>1. /\ walk = "idle" /\ walk' = "asking" /\ stack' = << <<>> >> /\ UNCHANGED <<acc, shown, unasked>>
    BY <1>4 DEF CallDownload, WalkBegins
  <2>2. stack = <<>> /\ acc = 0
    BY <1>a, <2>1 DEF Limits
  <2>3. stack' = Append(stack, <<>>)
    BY <2>1, <2>2
  <2>4. /\ stack' \in Stacks /\ Len(stack') = Len(stack) + 1 /\ stack'[Len(stack) + 1] = <<>>
        /\ Left(stack', "file", maxSkillDepth + 1) = unread
        /\ Left(stack', "dir", maxSkillDepth) = unopened
    BY <1>b, <2>3, LeftEmptyTop
  <2>5. Len(stack') = 1 /\ stack'[Len(stack')] = <<>>
    BY <2>2, <2>4
  <2>6. WalkTyped'
    BY <1>b, <2>1, <2>4 DEF WalkTyped, Stacks
  <2>7. Limits'
    BY <1>b, <2>1, <2>4, <2>5 DEF Limits, Stacks, Unseen
  <2>8. Accounted'
    BY <1>d, <2>1, <2>4 DEF Accounted
  <2> QED BY <2>6, <2>7, <2>8 DEF WalkInv
<1>5. CASE DownloadReturns
  <2>1. walk' = "idle" /\ stack' = <<>> /\ acc' = 0 /\ shown' = 0 /\ unasked' = 0
    BY <1>5 DEF DownloadReturns
  <2> QED BY <2>1, LeftOfNone DEF WalkInv, WalkTyped, Limits, Accounted
<1>6. CASE ListFails
  BY <1>6, <1>a DEF ListFails, WalkInv, WalkTyped, Limits, Accounted, Unseen
<1>7. CASE UNCHANGED walkVars
  BY <1>7, <1>a DEF walkVars, WalkInv, WalkTyped, Limits, Accounted, Unseen
<1>8. CASE CallFind \/ Searching \/ FindReturns \/ Fetch \/ UNCHANGED skillsVars
  BY <1>7, <1>8 DEF CallFind, Searching, FindReturns, Fetch, skillsVars
<1> QED BY <1>1, <1>2, <1>3, <1>4, <1>5, <1>6, <1>8 DEF SkillsNext, Working, Walking, WalkNext

\* The inductive invariant of the walk holds in every reachable state.
THEOREM WalkInvariant == SkillsSpec => []WalkInv
BY WalkStarts, WalkSteps, PTL DEF SkillsSpec

\* The limits on files and depth hold however wide and deep the repository is,
\* and a download they did not break off has every file it was shown and has
\* looked into every directory within the depth.
THEOREM WalkAlwaysWithinLimits == SkillsSpec => []WalkWithinLimits
<1>1. WalkInv => WalkWithinLimits
  <2> SUFFICES ASSUME WalkInv PROVE WalkWithinLimits
    OBVIOUS
  <2>1. acc <= maxSkillFiles /\ Len(stack) <= maxSkillDepth + 1 /\ acc \in Nat
    BY DEF WalkInv, Limits, WalkTyped
  <2>2. ASSUME walk = "listed", acc < maxSkillFiles PROVE acc = shown /\ unasked = 0
    <3>1. stack = <<>>
      BY <2>2 DEF WalkInv, Limits
    <3> QED BY <2>1, <2>2, <3>1, LeftOfNone DEF WalkInv, Accounted
  <2> QED BY <2>1, <2>2 DEF WalkWithinLimits
<1> QED BY <1>1, WalkInvariant, PTL
-----------------------------------------------------------------------------
(***************************************************************************)
(* The fan-outs, for any number of items and any limit.                    *)
(***************************************************************************)
\* The loop has started the first items and no others.
LoopProgress == \A i \in Items : task[i] = "unborn" <=> i > next

\* The channel and the wait group count what they are there to count.
CountsRight ==
  /\ places = Cardinality(Holding)
  /\ places <= Limit
  /\ wg = Cardinality(Alive)

\* A slot is filled by its own goroutine, before the deferred calls.
SlotsOwn ==
  \A i \in Items :
    /\ results[i] # None <=> task[i] \in {"written", "released", "done"}
    /\ results[i] # None => results[i][1] = i

\* The calls' context is over only if the caller's is.
ContextOfCaller == ctx => gone

FanoutInv ==
  /\ TypeOK
  /\ LoopProgress
  /\ CountsRight
  /\ SlotsOwn
  /\ ContextOfCaller
  /\ FailuresStayApart

\* Items and goroutines can be counted.
LEMMA PiecesFinite ==
  /\ IsFiniteSet(Items)
  /\ IsFiniteSet(Holding)
  /\ IsFiniteSet(Alive)
<1>1. IsFiniteSet(Items)
  BY FanoutAssumption, FS_Interval DEF Items
<1> QED BY <1>1, FS_Subset DEF Holding, Alive

\* One goroutine moves.
LEMMA TaskMoves ==
  ASSUME TypeOK, NEW i \in Items, NEW t, task' = [task EXCEPT ![i] = t]
  PROVE  task'[i] = t /\ \A j \in Items \ {i} : task'[j] = task[j]
BY DEF TypeOK

\* No goroutine has started.
LEMMA FanoutStarts == Init => FanoutInv
<1> SUFFICES ASSUME Init PROVE FanoutInv
  OBVIOUS
<1> USE FanoutAssumption
<1>1. TypeOK
  <2>1. task \in [Items -> {"unborn", "ready", "calling", "written", "released", "done"}]
    BY DEF Init
  <2>2. results \in [Items -> (Items \X Outcomes) \cup {None}]
    BY DEF Init
  <2>3. next \in 0 .. N /\ places \in Nat /\ wg \in Nat
    BY DEF Init
  <2> QED BY <2>1, <2>2, <2>3 DEF Init, TypeOK
<1>2. Holding = {} /\ Alive = {}
  BY DEF Init, Holding, Alive
<1>3. CountsRight
  BY <1>2, FS_EmptySet DEF Init, CountsRight
<1>4. LoopProgress
  BY DEF Init, LoopProgress, Items
<1> QED BY <1>1, <1>3, <1>4
        DEF Init, FanoutInv, SlotsOwn, ContextOfCaller, FailuresStayApart

\* A place is taken by the goroutine that holds it and given back by the same.
LEMMA FanoutSteps == FanoutInv /\ [Next]_vars => FanoutInv'
<1> SUFFICES ASSUME FanoutInv, [Next]_vars PROVE FanoutInv'
  OBVIOUS
<1> USE FanoutAssumption
<1>a. TypeOK /\ LoopProgress /\ CountsRight /\ SlotsOwn /\ ContextOfCaller /\ FailuresStayApart
  BY DEF FanoutInv
<1>b. Cardinality(Holding) \in Nat /\ Cardinality(Alive) \in Nat
  BY PiecesFinite, FS_CardinalityType
<1>1. CASE Spawn
  <2> DEFINE i == next + 1
  <2>1. /\ i \in Items /\ task' = [task EXCEPT ![i] = "ready"]
        /\ next' = i /\ wg' = wg + 1
        /\ UNCHANGED <<style, places, results, ctx, gone, answer>>
    BY <1>1, <1>a DEF Spawn, TypeOK, Items
  <2>2. task'[i] = "ready" /\ (\A j \in Items \ {i} : task'[j] = task[j]) /\ task[i] = "unborn"
    BY <1>a, <2>1, TaskMoves DEF LoopProgress, TypeOK, Items
  <2>3. Holding' = Holding /\ Alive' = Alive \cup {i} /\ i \notin Alive
    BY <2>1, <2>2 DEF Holding, Alive
  <2>4. CountsRight'
    BY <1>a, <2>1, <2>3, PiecesFinite, FS_AddElement DEF CountsRight
  <2>5. LoopProgress'
    BY <1>a, <2>1, <2>2 DEF LoopProgress, TypeOK, Items
  <2>6. TypeOK'
    BY <1>a, <2>1 DEF TypeOK, Items
  <2>7. SlotsOwn'
    BY <1>a, <2>1, <2>2 DEF SlotsOwn
  <2> QED BY <1>a, <2>1, <2>4, <2>5, <2>6, <2>7
          DEF FanoutInv, ContextOfCaller, FailuresStayApart
<1>2. CASE Go
  <2> DEFINE i == next + 1
  <2>1. /\ i \in Items /\ task' = [task EXCEPT ![i] = "calling"]
        /\ next' = i /\ wg' = wg + 1 /\ places' = places + 1 /\ places < Limit
        /\ UNCHANGED <<style, results, ctx, gone, answer>>
    BY <1>2, <1>a DEF Go, TypeOK, Items
  <2>2. task'[i] = "calling" /\ (\A j \in Items \ {i} : task'[j] = task[j]) /\ task[i] = "unborn"
    BY <1>a, <2>1, TaskMoves DEF LoopProgress, TypeOK, Items
  <2>3. /\ Holding' = Holding \cup {i} /\ i \notin Holding
        /\ Alive' = Alive \cup {i} /\ i \notin Alive
    BY <2>1, <2>2 DEF Holding, Alive
  <2>4. CountsRight'
    <3>1. places' = Cardinality(Holding') /\ wg' = Cardinality(Alive')
      BY <1>a, <2>1, <2>3, PiecesFinite, FS_AddElement DEF CountsRight
    <3>2. places' <= Limit
      BY <1>a, <2>1 DEF TypeOK
    <3> QED BY <3>1, <3>2 DEF CountsRight
  <2>5. LoopProgress'
    BY <1>a, <2>1, <2>2 DEF LoopProgress, TypeOK, Items
  <2>6. TypeOK'
    BY <1>a, <2>1 DEF TypeOK, Items
  <2>7. SlotsOwn'
    BY <1>a, <2>1, <2>2 DEF SlotsOwn
  <2> QED BY <1>a, <2>1, <2>4, <2>5, <2>6, <2>7
          DEF FanoutInv, ContextOfCaller, FailuresStayApart
<1>3. ASSUME NEW i \in Items, Acquire(i) PROVE FanoutInv'
  <2>1. /\ task[i] = "ready" /\ task'[i] = "calling" /\ \A j \in Items \ {i} : task'[j] = task[j]
        /\ places' = places + 1 /\ places < Limit
        /\ UNCHANGED <<style, next, wg, results, ctx, gone, answer>>
    BY <1>3, <1>a, TaskMoves DEF Acquire
  <2>2. Holding' = Holding \cup {i} /\ i \notin Holding /\ Alive' = Alive
    BY <2>1 DEF Holding, Alive
  <2>3. CountsRight'
    <3>1. places' = Cardinality(Holding') /\ wg' = Cardinality(Alive')
      BY <1>a, <2>1, <2>2, PiecesFinite, FS_AddElement DEF CountsRight
    <3>2. places' <= Limit
      BY <1>a, <2>1 DEF TypeOK
    <3> QED BY <3>1, <3>2 DEF CountsRight
  <2>4. TypeOK'
    BY <1>3, <1>a, <2>1 DEF Acquire, TypeOK
  <2>5. LoopProgress' /\ SlotsOwn'
    BY <1>a, <2>1 DEF LoopProgress, SlotsOwn
  <2> QED BY <1>a, <2>1, <2>3, <2>4, <2>5 DEF FanoutInv, ContextOfCaller, FailuresStayApart
<1>4. ASSUME NEW i \in Items, NEW o \in Outcomes, Finish(i, o) PROVE FanoutInv'
  <2>1. /\ task[i] = "calling" /\ task'[i] = "written" /\ \A j \in Items \ {i} : task'[j] = task[j]
        /\ o = "cancelled" => ctx
        /\ results' = [results EXCEPT ![i] = <<i, o>>]
        /\ UNCHANGED <<style, next, places, wg, ctx, gone, answer>>
    BY <1>4, <1>a, TaskMoves DEF Finish, Slot
  <2>2. /\ results'[i] = <<i, o>> /\ <<i, o>> \in Items \X Outcomes /\ <<i, o>> # None
        /\ \A j \in Items \ {i} : results'[j] = results[j]
    BY <1>a, <2>1 DEF TypeOK
  <2>3. Holding' = Holding /\ Alive' = Alive
    BY <2>1 DEF Holding, Alive
  <2>4. TypeOK'
    <3>1. results' \in [Items -> (Items \X Outcomes) \cup {None}]
      BY <1>a, <2>1, <2>2 DEF TypeOK
    <3> QED BY <1>4, <1>a, <2>1, <3>1 DEF Finish, TypeOK
  <2>5. SlotsOwn'
    BY <1>a, <2>1, <2>2 DEF SlotsOwn
  <2>6. FailuresStayApart'
    BY <1>a, <2>1, <2>2 DEF FailuresStayApart, ContextOfCaller
  <2> QED BY <1>a, <2>1, <2>3, <2>4, <2>5, <2>6
          DEF FanoutInv, ContextOfCaller, CountsRight, LoopProgress
<1>5. ASSUME NEW i \in Items, Release(i) PROVE FanoutInv'
  <2>1. /\ task[i] = "written" /\ task'[i] = "released" /\ \A j \in Items \ {i} : task'[j] = task[j]
        /\ places' = places - 1
        /\ UNCHANGED <<style, next, wg, results, ctx, gone, answer>>
    BY <1>5, <1>a, TaskMoves DEF Release
  <2>2. Holding' = Holding \ {i} /\ i \in Holding /\ Alive' = Alive
    BY <2>1 DEF Holding, Alive
  <2>3. /\ places' = Cardinality(Holding') /\ wg' = Cardinality(Alive')
    BY <1>a, <2>1, <2>2, PiecesFinite, FS_RemoveElement DEF CountsRight
  <2>4. places' \in Nat
    BY <2>2, <2>3, PiecesFinite, FS_RemoveElement, FS_CardinalityType
  <2>5. CountsRight'
    BY <1>a, <2>1, <2>3 DEF CountsRight, TypeOK
  <2>6. TypeOK'
    BY <1>5, <1>a, <2>1, <2>4 DEF Release, TypeOK
  <2>7. LoopProgress' /\ SlotsOwn'
    BY <1>a, <2>1 DEF LoopProgress, SlotsOwn
  <2> QED BY <1>a, <2>1, <2>5, <2>6, <2>7 DEF FanoutInv, ContextOfCaller, FailuresStayApart
<1>6. ASSUME NEW i \in Items, Done(i) PROVE FanoutInv'
  <2>1. /\ task[i] = "released" /\ task'[i] = "done" /\ \A j \in Items \ {i} : task'[j] = task[j]
        /\ wg' = wg - 1
        /\ UNCHANGED <<style, next, places, results, ctx, gone, answer>>
    BY <1>6, <1>a, TaskMoves DEF Done
  <2>2. Holding' = Holding /\ Alive' = Alive \ {i} /\ i \in Alive
    BY <2>1 DEF Holding, Alive
  <2>3. /\ places' = Cardinality(Holding') /\ wg' = Cardinality(Alive')
    BY <1>a, <2>1, <2>2, PiecesFinite, FS_RemoveElement DEF CountsRight
  <2>4. wg' \in Nat
    BY <2>2, <2>3, PiecesFinite, FS_RemoveElement, FS_CardinalityType
  <2>5. TypeOK'
    BY <1>6, <1>a, <2>1, <2>4 DEF Done, TypeOK
  <2>6. LoopProgress' /\ SlotsOwn'
    BY <1>a, <2>1 DEF LoopProgress, SlotsOwn
  <2> QED BY <1>a, <2>1, <2>3, <2>5, <2>6
          DEF FanoutInv, ContextOfCaller, FailuresStayApart, CountsRight
<1>7. CASE CallerGoes
  BY <1>7, <1>a DEF CallerGoes, FanoutInv, TypeOK, LoopProgress, CountsRight, SlotsOwn,
                    ContextOfCaller, FailuresStayApart, Holding, Alive
<1>8. CASE Wait
  BY <1>8, <1>a DEF Wait, FanoutInv, TypeOK, LoopProgress, CountsRight, SlotsOwn,
                    ContextOfCaller, FailuresStayApart, Holding, Alive
<1>9. CASE UNCHANGED vars
  BY <1>9, <1>a DEF vars, FanoutInv, TypeOK, LoopProgress, CountsRight, SlotsOwn,
                    ContextOfCaller, FailuresStayApart, Holding, Alive
<1> QED BY <1>1, <1>2, <1>3, <1>4, <1>5, <1>6, <1>7, <1>8, <1>9 DEF Next, Step

\* The inductive invariant holds in every reachable state.
THEOREM FanoutInvariant == Spec => []FanoutInv
<1>1. Init => FanoutInv
  BY FanoutStarts
<1>2. FanoutInv /\ [Next]_vars => FanoutInv'
  BY FanoutSteps
<1> QED BY <1>1, <1>2, PTL DEF Spec

\* Values are of their kinds, no counter goes below zero.
THEOREM FanoutTypeCorrect == Spec => []TypeOK
<1>1. FanoutInv => TypeOK
  BY DEF FanoutInv
<1> QED BY <1>1, FanoutInvariant, PTL

\* The limit on concurrent calls holds for any number of items.
THEOREM LimitKept == Spec => []InFlightBounded
<1>1. FanoutInv => InFlightBounded
  <2> SUFFICES ASSUME FanoutInv PROVE InFlightBounded
    OBVIOUS
  <2> DEFINE Calling == {i \in Items : task[i] = "calling"}
  <2>1. Calling \in SUBSET Holding
    BY DEF Holding
  <2>2. IsFiniteSet(Calling) /\ Cardinality(Calling) <= Cardinality(Holding)
    BY <2>1, PiecesFinite, FS_Subset
  <2>3. Cardinality(Calling) \in Nat /\ Cardinality(Holding) \in Nat
    BY <2>2, PiecesFinite, FS_CardinalityType
  <2> QED BY <2>2, <2>3, FanoutAssumption DEF FanoutInv, CountsRight, InFlightBounded
<1> QED BY <1>1, FanoutInvariant, PTL

\* No call is cancelled because another one failed.
THEOREM FailuresApart == Spec => []FailuresStayApart
<1>1. FanoutInv => FailuresStayApart
  BY DEF FanoutInv
<1> QED BY <1>1, FanoutInvariant, PTL

\* The handler returns every item's outcome in its own slot, once, and gives
\* none up unless the caller has gone: it implements the parallel map.
THEOREM FanoutImplementsMap == Spec => ImplementsMap
<1> USE FanoutAssumption
<1>1. Init => Map!MapInit
  BY DEF Init, Map!MapInit
<1>2. FanoutInv /\ [Next]_vars => [Map!Respond \/ Map!Leave]_(Map!mapVars)
  <2> SUFFICES ASSUME FanoutInv, [Next]_vars, answer' # answer \/ gone' # gone
               PROVE  Map!Respond \/ Map!Leave
    BY DEF Map!mapVars
  <2>1. Wait \/ CallerGoes
    BY DEF Next, Step, vars, Spawn, Go, Acquire, Finish, Release, Done
  <2>2. CASE CallerGoes
    BY <2>2 DEF CallerGoes, Map!Leave
  <2>3. CASE Wait
    <3>1. answer = None /\ wg = 0 /\ answer' = results /\ next = N /\ UNCHANGED gone
      BY <2>3 DEF Wait
    <3>2. \A i \in Items : task[i] = "done"
      <4>1. Alive = {}
        BY <3>1, PiecesFinite, FS_EmptySet DEF FanoutInv, CountsRight
      <4>2. \A i \in Items : task[i] # "unborn"
        BY <3>1 DEF FanoutInv, LoopProgress, Items
      <4> QED BY <4>1, <4>2 DEF Alive
    <3>3. \A i \in Items : results[i] # None /\ results[i] \in Items \X Outcomes /\ results[i][1] = i
      BY <3>2 DEF FanoutInv, SlotsOwn, TypeOK
    <3> DEFINE r == [i \in Items |-> results[i][2]]
    <3>4. r \in [Items -> Outcomes]
      BY <3>3
    <3>5. results = [i \in Items |-> <<i, r[i]>>]
      <4>1. \A i \in Items : results[i] = <<i, r[i]>>
        BY <3>3
      <4> QED BY <4>1 DEF FanoutInv, TypeOK
    <3>6. \A i \in Items : r[i] = "cancelled" => gone
      BY <3>3 DEF FanoutInv, FailuresStayApart
    <3> QED BY <3>1, <3>4, <3>5, <3>6 DEF Map!Respond, Map!Answers, Items
  <2> QED BY <2>1, <2>2, <2>3
<1> QED BY <1>1, <1>2, FanoutInvariant, PTL DEF Spec, ImplementsMap, Map!MapSpec
=============================================================================
