--------------------------- MODULE PromotionProofs ---------------------------
(***************************************************************************)
(* Proofs about Promotion, for any sessions, any keys and any number of    *)
(* calls, overlapping calls, edits of the rules and crashes.               *)
(*                                                                         *)
(* The invariant has three layers.  Lasting holds whatever overlaps and    *)
(* whatever dies: a file that is there stays there.  Alone holds as long   *)
(* as calls have not overlapped, crashes included: the call at work knows  *)
(* what the files hold.  Undisturbed holds as long as nothing has crashed  *)
(* either: whatever is out of step is the work of the one call in flight.  *)
(***************************************************************************)
EXTENDS Promotion, TLAPS

Making   == {"generate", "generating", "test"}
Filing   == {"register", "copying", "describe", "describing"}
Applying == {"promoting", "mark", "marking"}
Idling   == {"new", "end"}
PCs      == Making \cup Filing \cup Applying \cup Idling \cup {"load", "record", "rules", "scan"}

CallTypes == [pc : PCs, session : Sessions \cup {"none"}, event : BOOLEAN, text : Texts,
              result : Evidence \cup {"none"}, known : SUBSET Sessions, todo : SUBSET Keys,
              key : Keys \cup {"none"}]

Metas == {NoMeta, TornMeta} \cup [status : {"pending_review", "promoted"}, text : Evidence]

\* What a call at a given place has in its locals.
Placed(l) == /\ l \in CallTypes
             /\ l.pc \notin Idling => l.session \in Sessions
             /\ l.pc \in Filing => Passed(l.result)
             /\ l.pc \in Applying => Passed(l.result) /\ l.key \in Keys

Types == /\ TypeOK
         /\ call \in [Calls -> CallTypes]
         /\ \A c \in Calls : Placed(call[c])

\* Files that are there stay there, and meta.json only speaks of what passed.
Lasting ==
  /\ \A c \in Calls :
       /\ call[c].pc \in {"generating", "test", "register"} => draft[call[c].session] # NoText
       /\ call[c].pc = "copying" => call[c].text # NoText
       /\ call[c].pc \in {"copying", "describe", "describing"} => review[Key(c)] # NoText
       /\ call[c].pc \in Applying => review[call[c].key] # NoText /\ master[call[c].key] # NoText
  /\ \A key \in Keys :
       /\ meta[key].status = "promoted" => master[key] # NoText
       /\ meta[key].status = "pending_review" => review[key] # NoText
       /\ meta[key].status \in {"pending_review", "promoted"} => Passed(meta[key].text)

OneInFlight == \A c, d \in InFlight : c = d

\* The call at work and the files, as long as no two calls have overlapped.
Alone ==
  /\ OneInFlight
  /\ \A c \in Calls :
       /\ call[c].pc \in {"new"} \cup Making => tested[c] = "none"
       /\ call[c].pc \in {"test", "register"} => draft[call[c].session] = c
       /\ call[c].pc \in Filing => tested[c] = call[c].result
       /\ call[c].pc = "copying" => call[c].text = c
       /\ call[c].pc \in {"describe", "describing"} => review[Key(c)] = c
       /\ call[c].pc \in Making \cup Filing => master[Key(c)] = NoText
       /\ call[c].pc \in {"mark", "marking"} => master[call[c].key] = review[call[c].key]
       /\ call[c].pc \in {"scan"} \cup Applying =>
            \A key \in Keys \ call[c].todo : meta[key].status = "pending_review" => master[key] # NoText
  /\ \A key \in Keys :
       /\ review[key] \in Calls => Passed(tested[review[key]])
       /\ master[key] \in Calls => Passed(tested[master[key]])
       /\ meta[key].status = "promoted" => master[key] = review[key]

\* Whatever is out of step is being worked on, as long as nothing has crashed.
Undisturbed ==
  /\ \A key \in Keys :
       /\ review[key] = Torn => \E c \in Calls : call[c].pc = "copying" /\ Key(c) = key
       /\ master[key] = Torn => \E c \in Calls : call[c].pc = "promoting" /\ call[c].key = key
       /\ meta[key].status = "pending_review" =>
            \/ review[key] \in Calls /\ meta[key].text = tested[review[key]]
            \/ \E c \in Calls : call[c].pc \in {"copying", "describe"} /\ Key(c) = key
       /\ master[key] # NoText =>
            \/ /\ meta[key].status = "promoted" /\ review[key] \in Calls
               /\ meta[key].text = tested[review[key]]
            \/ \E c \in Calls : call[c].pc \in Applying /\ call[c].key = key
  /\ \A c \in Calls : call[c].pc \in Applying =>
       review[call[c].key] \in Calls /\ call[c].result = tested[review[call[c].key]]

Inv == /\ Types
       /\ Lasting
       /\ ~overlapped => Alone
       /\ ~overlapped /\ crashed = 0 => Undisturbed

-----------------------------------------------------------------------------
(* The calls.                                                              *)

\* The record a call becomes when it moves on.
LEMMA Update ==
  ASSUME Types, NEW c \in Calls, NEW l \in CallTypes, call' = [call EXCEPT ![c] = l], Placed(l)
  PROVE  /\ call' \in [Calls -> CallTypes]
         /\ call'[c] = l
         /\ \A d \in Calls : d # c => call'[d] = call[d]
         /\ \A d \in Calls : Placed(call'[d])
<1>1. call \in [Calls -> CallTypes] /\ \A d \in Calls : Placed(call[d])
  BY DEF Types
<1>2. QED BY <1>1

\* A step that only moves a call from one place to the next.
Advances(c, from, to) ==
  /\ call[c].pc = from /\ call'[c].pc = to
  /\ call'[c].session = call[c].session /\ call'[c].event = call[c].event
  /\ call'[c].text = call[c].text /\ call'[c].result = call[c].result
  /\ call'[c].todo = call[c].todo /\ call'[c].key = call[c].key
  /\ call' \in [Calls -> CallTypes]
  /\ \A d \in Calls : d # c => call'[d] = call[d]
  /\ \A d \in Calls : Placed(call'[d])

\* A call that only goes on keeps its locals.
LEMMA Moved ==
  ASSUME Types, NEW c \in Calls, NEW from, NEW to \in PCs, Goes(c, from, to),
         to \notin Idling => call[c].session \in Sessions,
         to \in Filing => Passed(call[c].result),
         to \in Applying => Passed(call[c].result) /\ call[c].key \in Keys
  PROVE  Advances(c, from, to)
<1> DEFINE l == [call[c] EXCEPT !.pc = to]
<1>1. call[c] \in CallTypes
  BY DEF Types
<1>2. call' = [call EXCEPT ![c] = l] /\ call[c].pc = from
  BY DEF Goes
<1>3. /\ l \in CallTypes
      /\ l.pc = to /\ l.session = call[c].session /\ l.event = call[c].event
      /\ l.text = call[c].text /\ l.result = call[c].result
      /\ l.todo = call[c].todo /\ l.key = call[c].key
  BY <1>1 DEF CallTypes
<1> HIDE DEF l
<1>4. Placed(l)
  BY <1>3 DEF Placed
<1>5. QED BY <1>2, <1>3, <1>4, Update DEF Advances

\* As long as calls have not overlapped, a call in flight is the only one.
LEMMA OnlyOne ==
  ASSUME Alone, NEW c \in Calls, call[c].pc \notin Idling
  PROVE  \A d \in Calls : d # c => call[d].pc \in Idling
BY DEF Alone, OneInFlight, InFlight, Idling

\* A call that is the only one stays the only one.
LEMMA StaysOne ==
  ASSUME NEW c \in Calls, \A d \in Calls : d # c => call'[d].pc \in Idling
  PROVE  OneInFlight'
BY DEF OneInFlight, InFlight, Idling

-----------------------------------------------------------------------------
(* One lemma per step of a call.                                           *)

\* The step that opens the generated adapter keeps the invariant.
LEMMA GenerateStep == ASSUME Inv, NEW c \in Calls, Generate(c) PROVE Inv'
<1>1. Types /\ Lasting
  BY DEF Inv
<1>2. /\ Goes(c, "generate", "generating") /\ "generating" \in PCs /\ Placed(call[c])
      /\ call[c].session \in Sessions
      /\ "generating" \in Filing => Passed(call[c].result)
      /\ "generating" \in Applying => Passed(call[c].result) /\ call[c].key \in Keys
  BY <1>1 DEF Generate, Types, CallTypes, Placed, Goes, PCs, Making, Filing, Applying, Idling, AfterCycle
<1>3. Advances(c, "generate", "generating")
  BY <1>1, <1>2, Moved
<1>4. /\ draft' = [draft EXCEPT ![call[c].session] = Torn]
      /\ auto' = auto /\ review' = review /\ meta' = meta /\ master' = master /\ outcomes' = outcomes
      /\ tested' = tested /\ changes' = changes /\ crashed' = crashed /\ overlapped' = overlapped
  BY DEF Generate, history
<1>5. Types'
  BY <1>1, <1>2, <1>3, <1>4 DEF Types, TypeOK, Texts, CallTypes, Evidence, Advances
<1>6. Lasting'
  BY SMTT(30), <1>1, <1>2, <1>3, <1>4 DEF Types, TypeOK, Placed, Lasting, Key, Making, Filing, Applying, NoText, Torn, Calls, Advances
<1>7. ASSUME ~overlapped' PROVE Alone'
  <2>1. Alone
    BY <1>4, <1>7 DEF Inv
  <2>2. \A d \in Calls : d # c => call[d].pc \in Idling /\ call'[d] = call[d]
    BY <1>1, <1>2, <1>3, <1>4, <2>1, OnlyOne DEF Idling, Advances
  <2>3. OneInFlight'
    BY <2>2, StaysOne
  <2>4. QED BY <1>1, <1>2, <1>3, <1>4, <2>1, <2>2, <2>3
            DEF Types, TypeOK, Placed, Lasting, Alone, Key, Making, Filing, Applying, Idling, NoText, Torn, Calls, Passed, Advances
<1>8. ASSUME ~overlapped', crashed' = 0 PROVE Undisturbed'
  <2>1. Alone /\ Undisturbed
    BY <1>4, <1>8 DEF Inv
  <2>2. \A d \in Calls : d # c => call[d].pc \in Idling /\ call'[d] = call[d]
    BY <1>1, <1>2, <1>3, <1>4, <2>1, OnlyOne DEF Idling, Advances
  <2>3. QED BY <1>3, <1>4, <2>1 DEF Undisturbed, Key, Applying, Advances
<1>9. QED BY <1>5, <1>6, <1>7, <1>8 DEF Inv

\* The step that completes the generated adapter keeps the invariant.
LEMMA GeneratedStep == ASSUME Inv, NEW c \in Calls, Generated(c) PROVE Inv'
<1>1. Types /\ Lasting
  BY DEF Inv
<1>2. /\ Goes(c, "generating", "test") /\ "test" \in PCs /\ Placed(call[c])
      /\ call[c].session \in Sessions
      /\ "test" \in Filing => Passed(call[c].result)
      /\ "test" \in Applying => Passed(call[c].result) /\ call[c].key \in Keys
  BY <1>1 DEF Generated, Types, CallTypes, Placed, Goes, PCs, Making, Filing, Applying, Idling, AfterCycle
<1>3. Advances(c, "generating", "test")
  BY <1>1, <1>2, Moved
<1>4. /\ draft' = [draft EXCEPT ![call[c].session] = c]
      /\ auto' = auto /\ review' = review /\ meta' = meta /\ master' = master /\ outcomes' = outcomes
      /\ tested' = tested /\ changes' = changes /\ crashed' = crashed /\ overlapped' = overlapped
  BY DEF Generated, history
<1>5. Types'
  BY <1>1, <1>2, <1>3, <1>4 DEF Types, TypeOK, Texts, CallTypes, Evidence, Advances
<1>6. Lasting'
  BY SMTT(30), <1>1, <1>2, <1>3, <1>4 DEF Types, TypeOK, Placed, Lasting, Key, Making, Filing, Applying, NoText, Torn, Calls, Advances
<1>7. ASSUME ~overlapped' PROVE Alone'
  <2>1. Alone
    BY <1>4, <1>7 DEF Inv
  <2>2. \A d \in Calls : d # c => call[d].pc \in Idling /\ call'[d] = call[d]
    BY <1>1, <1>2, <1>3, <1>4, <2>1, OnlyOne DEF Idling, Advances
  <2>3. OneInFlight'
    BY <2>2, StaysOne
  <2>4. QED BY <1>1, <1>2, <1>3, <1>4, <2>1, <2>2, <2>3
            DEF Types, TypeOK, Placed, Lasting, Alone, Key, Making, Filing, Applying, Idling, NoText, Torn, Calls, Passed, Advances
<1>8. ASSUME ~overlapped', crashed' = 0 PROVE Undisturbed'
  <2>1. Alone /\ Undisturbed
    BY <1>4, <1>8 DEF Inv
  <2>2. \A d \in Calls : d # c => call[d].pc \in Idling /\ call'[d] = call[d]
    BY <1>1, <1>2, <1>3, <1>4, <2>1, OnlyOne DEF Idling, Advances
  <2>3. QED BY <1>3, <1>4, <2>1 DEF Undisturbed, Key, Applying, Advances
<1>9. QED BY <1>5, <1>6, <1>7, <1>8 DEF Inv

\* The step that completes the copy for review keeps the invariant.
LEMMA CopiedStep == ASSUME Inv, NEW c \in Calls, Copied(c) PROVE Inv'
<1>1. Types /\ Lasting
  BY DEF Inv
<1>2. /\ Goes(c, "copying", "describe") /\ "describe" \in PCs /\ Placed(call[c])
      /\ call[c].session \in Sessions
      /\ "describe" \in Filing => Passed(call[c].result)
      /\ "describe" \in Applying => Passed(call[c].result) /\ call[c].key \in Keys
  BY <1>1 DEF Copied, Types, CallTypes, Placed, Goes, PCs, Making, Filing, Applying, Idling, AfterCycle
<1>3. Advances(c, "copying", "describe")
  BY <1>1, <1>2, Moved
<1>4. /\ review' = [review EXCEPT ![Key(c)] = call[c].text]
      /\ auto' = auto /\ draft' = draft /\ meta' = meta /\ master' = master /\ outcomes' = outcomes
      /\ tested' = tested /\ changes' = changes /\ crashed' = crashed /\ overlapped' = overlapped
  BY DEF Copied, history
<1>5. Types'
  BY <1>1, <1>2, <1>3, <1>4 DEF Types, TypeOK, Texts, CallTypes, Evidence, Advances
<1>6. Lasting'
  BY <1>1, <1>2, <1>3, <1>4 DEF Types, TypeOK, Placed, Lasting, Key, Making, Filing, Applying, NoText, Torn, Calls, Advances
<1>7. ASSUME ~overlapped' PROVE Alone'
  <2>1. Alone
    BY <1>4, <1>7 DEF Inv
  <2>2. \A d \in Calls : d # c => call[d].pc \in Idling /\ call'[d] = call[d]
    BY SMTT(30), <1>1, <1>2, <1>3, <1>4, <2>1, OnlyOne DEF Idling, Advances
  <2>3. OneInFlight'
    BY <2>2, StaysOne
  <2>4. /\ call[c].text = c /\ tested[c] = call[c].result /\ master[Key(c)] = NoText
        /\ Key(c) \in Keys /\ Key(c)' = Key(c) /\ review' = [review EXCEPT ![Key(c)] = c]
    BY ZenonT(40), <1>2, <1>3, <1>4, <2>1, KeysAssumption DEF Alone, Key, Filing, Making, Advances
  <2>5. \A key \in Keys :
          /\ (review[key] \in Calls => Passed(tested[review[key]]))'
          /\ (master[key] \in Calls => Passed(tested[master[key]]))'
          /\ (meta[key].status = "promoted" => master[key] = review[key])'
    BY <1>1, <1>2, <1>4, <2>1, <2>4, <1>3 DEF Types, TypeOK, Placed, Filing, Alone, Lasting, Advances
  <2>6. QED BY <1>1, <1>2, <1>3, <1>4, <2>1, <2>2, <2>3, <2>4, <2>5
            DEF Types, TypeOK, Alone, Making, Filing, Applying, Idling, Key, Advances
<1>8. ASSUME ~overlapped', crashed' = 0 PROVE Undisturbed'
  <2>1. Alone /\ Undisturbed
    BY <1>4, <1>8 DEF Inv
  <2>2. \A d \in Calls : d # c => call[d].pc \in Idling /\ call'[d] = call[d]
    BY SMTT(30), <1>1, <1>2, <1>3, <1>4, <2>1, OnlyOne DEF Idling, Advances
  <2>3. ASSUME NEW key \in Keys
        PROVE  (review[key] = Torn => \E d \in Calls : call[d].pc = "copying" /\ Key(d) = key)'
    BY SMTT(30), <1>1, <1>2, <1>3, <1>4, <2>1, <2>2 DEF Types, TypeOK, Lasting, Alone, Undisturbed, Key, Idling, NoText, Torn, Calls, Advances
  <2>4. ASSUME NEW key \in Keys
        PROVE  (master[key] = Torn => \E d \in Calls : call[d].pc = "promoting" /\ call[d].key = key)'
    BY SMTT(30), <1>1, <1>2, <1>3, <1>4, <2>1, <2>2 DEF Types, TypeOK, Lasting, Alone, Undisturbed, Key, Applying, Idling, NoText, Torn, Calls, Advances
  <2>5. ASSUME NEW key \in Keys
        PROVE  (meta[key].status = "pending_review" =>
                  \/ review[key] \in Calls /\ meta[key].text = tested[review[key]]
                  \/ \E d \in Calls : call[d].pc \in {"copying", "describe"} /\ Key(d) = key)'
    BY SMTT(30), <1>1, <1>2, <1>3, <1>4, <2>1, <2>2 DEF Types, TypeOK, Alone, Undisturbed, Key, Filing, Idling, Passed, Advances
  <2>6. ASSUME NEW key \in Keys
        PROVE  (master[key] # NoText =>
                  \/ /\ meta[key].status = "promoted" /\ review[key] \in Calls
                     /\ meta[key].text = tested[review[key]]
                  \/ \E d \in Calls : call[d].pc \in Applying /\ call[d].key = key)'
    BY SMTT(30), <1>1, <1>2, <1>3, <1>4, <2>1, <2>2 DEF Types, TypeOK, Lasting, Alone, Undisturbed, Key, Making, Filing, Applying, Idling, NoText, Passed, Advances
  <2>7. ASSUME NEW d \in Calls, (call[d].pc \in Applying)'
        PROVE  (review[call[d].key] \in Calls /\ call[d].result = tested[review[call[d].key]])'
    BY <1>1, <1>2, <1>3, <1>4, <2>1, <2>2, <2>7 DEF Types, TypeOK, Placed, Alone, Undisturbed, Key, Applying, Idling, Advances
  <2>8. QED BY <2>3, <2>4, <2>5, <2>6, <2>7 DEF Undisturbed
<1>9. QED BY <1>5, <1>6, <1>7, <1>8 DEF Inv

\* The step that opens the description keeps the invariant.
LEMMA DescribeStep == ASSUME Inv, NEW c \in Calls, Describe(c) PROVE Inv'
<1>1. Types /\ Lasting
  BY DEF Inv
<1>2. /\ Goes(c, "describe", "describing") /\ "describing" \in PCs /\ Placed(call[c])
      /\ call[c].session \in Sessions
      /\ "describing" \in Filing => Passed(call[c].result)
      /\ "describing" \in Applying => Passed(call[c].result) /\ call[c].key \in Keys
  BY <1>1 DEF Describe, Types, CallTypes, Placed, Goes, PCs, Making, Filing, Applying, Idling, AfterCycle
<1>3. Advances(c, "describe", "describing")
  BY <1>1, <1>2, Moved
<1>4. /\ meta' = [meta EXCEPT ![Key(c)] = TornMeta]
      /\ auto' = auto /\ draft' = draft /\ review' = review /\ master' = master /\ outcomes' = outcomes
      /\ tested' = tested /\ changes' = changes /\ crashed' = crashed /\ overlapped' = overlapped
  BY DEF Describe, history
<1>5. Types'
  BY <1>1, <1>2, <1>3, <1>4 DEF Types, TypeOK, Texts, CallTypes, Evidence, Advances, Key
<1>6. Lasting'
  BY <1>1, <1>2, <1>3, <1>4 DEF Types, TypeOK, Placed, Lasting, Key, Making, Filing, Applying, NoText, Torn, Calls, Advances, TornMeta
<1>7. ASSUME ~overlapped' PROVE Alone'
  <2>1. Alone
    BY <1>4, <1>7 DEF Inv
  <2>2. \A d \in Calls : d # c => call[d].pc \in Idling /\ call'[d] = call[d]
    BY <1>1, <1>2, <1>3, <1>4, <2>1, OnlyOne DEF Idling, Advances
  <2>3. OneInFlight'
    BY <2>2, StaysOne
  <2>4. QED BY <1>1, <1>2, <1>3, <1>4, <2>1, <2>2, <2>3
            DEF Types, TypeOK, Placed, Lasting, Alone, Key, Making, Filing, Applying, Idling, NoText, Torn, Calls, Passed, Advances, TornMeta
<1>8. ASSUME ~overlapped', crashed' = 0 PROVE Undisturbed'
  <2>1. Alone /\ Undisturbed
    BY <1>4, <1>8 DEF Inv
  <2>2. \A d \in Calls : d # c => call[d].pc \in Idling /\ call'[d] = call[d]
    BY SMTT(30), <1>1, <1>2, <1>3, <1>4, <2>1, OnlyOne DEF Idling, Advances
  <2>3. ASSUME NEW key \in Keys
        PROVE  (review[key] = Torn => \E d \in Calls : call[d].pc = "copying" /\ Key(d) = key)'
    BY SMTT(30), <1>1, <1>2, <1>3, <1>4, <2>1, <2>2 DEF Types, TypeOK, Lasting, Alone, Undisturbed, Key, Idling, NoText, Torn, Calls, Advances, TornMeta
  <2>4. ASSUME NEW key \in Keys
        PROVE  (master[key] = Torn => \E d \in Calls : call[d].pc = "promoting" /\ call[d].key = key)'
    BY SMTT(30), <1>1, <1>2, <1>3, <1>4, <2>1, <2>2 DEF Types, TypeOK, Lasting, Alone, Undisturbed, Key, Applying, Idling, NoText, Torn, Calls, Advances, TornMeta
  <2>5. ASSUME NEW key \in Keys
        PROVE  (meta[key].status = "pending_review" =>
                  \/ review[key] \in Calls /\ meta[key].text = tested[review[key]]
                  \/ \E d \in Calls : call[d].pc \in {"copying", "describe"} /\ Key(d) = key)'
    BY SMTT(30), <1>1, <1>2, <1>3, <1>4, <2>1, <2>2 DEF Types, TypeOK, Alone, Undisturbed, Key, Filing, Idling, Passed, Advances, TornMeta
  <2>6. ASSUME NEW key \in Keys
        PROVE  (master[key] # NoText =>
                  \/ /\ meta[key].status = "promoted" /\ review[key] \in Calls
                     /\ meta[key].text = tested[review[key]]
                  \/ \E d \in Calls : call[d].pc \in Applying /\ call[d].key = key)'
    BY SMTT(30), <1>1, <1>2, <1>3, <1>4, <2>1, <2>2 DEF Types, TypeOK, Lasting, Alone, Undisturbed, Key, Making, Filing, Applying, Idling, NoText, Passed, Advances, TornMeta
  <2>7. ASSUME NEW d \in Calls, (call[d].pc \in Applying)'
        PROVE  (review[call[d].key] \in Calls /\ call[d].result = tested[review[call[d].key]])'
    BY <1>1, <1>2, <1>3, <1>4, <2>1, <2>2, <2>7 DEF Types, TypeOK, Placed, Alone, Undisturbed, Key, Applying, Idling, Advances, TornMeta
  <2>8. QED BY <2>3, <2>4, <2>5, <2>6, <2>7 DEF Undisturbed
<1>9. QED BY <1>5, <1>6, <1>7, <1>8 DEF Inv

\* The step that completes the description keeps the invariant.
LEMMA DescribedStep == ASSUME Inv, NEW c \in Calls, Described(c) PROVE Inv'
<1>1. Types /\ Lasting
  BY DEF Inv
<1>2. /\ Goes(c, "describing", AfterCycle(call[c].event)) /\ AfterCycle(call[c].event) \in PCs /\ Placed(call[c])
      /\ call[c].session \in Sessions
      /\ AfterCycle(call[c].event) \in Filing => Passed(call[c].result)
      /\ AfterCycle(call[c].event) \in Applying => Passed(call[c].result) /\ call[c].key \in Keys
  BY <1>1 DEF Described, Types, CallTypes, Placed, Goes, PCs, Making, Filing, Applying, Idling, AfterCycle
<1>3. Advances(c, "describing", AfterCycle(call[c].event))
  BY <1>1, <1>2, Moved
<1>4. /\ meta' = [meta EXCEPT ![Key(c)] = [status |-> "pending_review", text |-> call[c].result]]
      /\ auto' = auto /\ draft' = draft /\ review' = review /\ master' = master /\ outcomes' = outcomes
      /\ tested' = tested /\ changes' = changes /\ crashed' = crashed /\ overlapped' = overlapped
  BY DEF Described, history
<1>5. Types'
  <2>1. call[c].result \in Evidence
    BY <1>2, <1>3 DEF Placed, Filing, Applying, Passed, Evidence, Advances
  <2>2. [status |-> "pending_review", text |-> call[c].result] \in Metas
    BY <2>1 DEF Metas
  <2>3. meta \in [Keys -> Metas]
    BY <1>1 DEF Types, TypeOK, Metas
  <2>4. meta' \in [Keys -> Metas]
    BY <1>4, <2>2, <2>3
  <2>5. QED BY <1>1, <1>3, <1>4, <2>4 DEF Types, TypeOK, Metas, CallTypes, Advances
<1>6. Lasting'
  BY SMTT(30), <1>1, <1>2, <1>3, <1>4 DEF Types, TypeOK, Placed, Lasting, Key, Making, Filing, Applying, NoText, Torn, Calls, Advances, AfterCycle
<1>7. ASSUME ~overlapped' PROVE Alone'
  <2>1. Alone
    BY <1>4, <1>7 DEF Inv
  <2>2. \A d \in Calls : d # c => call[d].pc \in Idling /\ call'[d] = call[d]
    BY <1>1, <1>2, <1>3, <1>4, <2>1, OnlyOne DEF Idling, Advances
  <2>3. OneInFlight'
    BY <2>2, StaysOne
  <2>4. QED BY <1>1, <1>2, <1>3, <1>4, <2>1, <2>2, <2>3
            DEF Types, TypeOK, Placed, Lasting, Alone, Key, Making, Filing, Applying, Idling, NoText, Torn, Calls, Passed, Advances, AfterCycle
<1>8. ASSUME ~overlapped', crashed' = 0 PROVE Undisturbed'
  <2>1. Alone /\ Undisturbed
    BY <1>4, <1>8 DEF Inv
  <2>2. \A d \in Calls : d # c => call[d].pc \in Idling /\ call'[d] = call[d]
    BY SMTT(30), <1>1, <1>2, <1>3, <1>4, <2>1, OnlyOne DEF Idling, Advances
  <2>3. ASSUME NEW key \in Keys
        PROVE  (review[key] = Torn => \E d \in Calls : call[d].pc = "copying" /\ Key(d) = key)'
    BY SMTT(30), <1>1, <1>2, <1>3, <1>4, <2>1, <2>2 DEF Types, TypeOK, Lasting, Alone, Undisturbed, Key, Idling, NoText, Torn, Calls, Advances, AfterCycle
  <2>4. ASSUME NEW key \in Keys
        PROVE  (master[key] = Torn => \E d \in Calls : call[d].pc = "promoting" /\ call[d].key = key)'
    BY <1>1, <1>2, <1>3, <1>4, <2>1, <2>2 DEF Types, TypeOK, Lasting, Alone, Undisturbed, Key, Applying, Idling, NoText, Torn, Calls, Advances, AfterCycle
  <2>5. ASSUME NEW key \in Keys
        PROVE  (meta[key].status = "pending_review" =>
                  \/ review[key] \in Calls /\ meta[key].text = tested[review[key]]
                  \/ \E d \in Calls : call[d].pc \in {"copying", "describe"} /\ Key(d) = key)'
    BY <1>1, <1>2, <1>3, <1>4, <2>1, <2>2 DEF Types, TypeOK, Alone, Undisturbed, Key, Filing, Idling, Passed, Advances, AfterCycle
  <2>6. ASSUME NEW key \in Keys
        PROVE  (master[key] # NoText =>
                  \/ /\ meta[key].status = "promoted" /\ review[key] \in Calls
                     /\ meta[key].text = tested[review[key]]
                  \/ \E d \in Calls : call[d].pc \in Applying /\ call[d].key = key)'
    BY <1>1, <1>2, <1>3, <1>4, <2>1, <2>2 DEF Types, TypeOK, Lasting, Alone, Undisturbed, Key, Making, Filing, Applying, Idling, NoText, Passed, Advances, AfterCycle
  <2>7. ASSUME NEW d \in Calls, (call[d].pc \in Applying)'
        PROVE  (review[call[d].key] \in Calls /\ call[d].result = tested[review[call[d].key]])'
    BY <1>1, <1>2, <1>3, <1>4, <2>1, <2>2, <2>7 DEF Types, TypeOK, Placed, Alone, Undisturbed, Key, Applying, Idling, Advances, AfterCycle
  <2>8. QED BY <2>3, <2>4, <2>5, <2>6, <2>7 DEF Undisturbed
<1>9. QED BY <1>5, <1>6, <1>7, <1>8 DEF Inv

\* The step that copies the adapter to master/ keeps the invariant.
LEMMA PromoteStep == ASSUME Inv, NEW c \in Calls, Promote(c) PROVE Inv'
<1>1. Types /\ Lasting
  BY DEF Inv
<1>2. /\ Goes(c, "promoting", "mark") /\ "mark" \in PCs /\ Placed(call[c])
      /\ call[c].session \in Sessions
      /\ "mark" \in Filing => Passed(call[c].result)
      /\ "mark" \in Applying => Passed(call[c].result) /\ call[c].key \in Keys
  BY <1>1 DEF Promote, Types, CallTypes, Placed, Goes, PCs, Making, Filing, Applying, Idling, AfterCycle
<1>3. Advances(c, "promoting", "mark")
  BY <1>1, <1>2, Moved
<1>4. /\ master' = [master EXCEPT ![call[c].key] = review[call[c].key]]
      /\ auto' = auto /\ draft' = draft /\ review' = review /\ meta' = meta /\ outcomes' = outcomes
      /\ tested' = tested /\ changes' = changes /\ crashed' = crashed /\ overlapped' = overlapped
  BY DEF Promote, history
<1>5. Types'
  BY <1>1, <1>2, <1>3, <1>4 DEF Types, TypeOK, Texts, CallTypes, Evidence, Advances
<1>6. Lasting'
  BY <1>1, <1>2, <1>3, <1>4 DEF Types, TypeOK, Placed, Lasting, Key, Making, Filing, Applying, NoText, Torn, Calls, Advances
<1>7. ASSUME ~overlapped' PROVE Alone'
  <2>1. Alone
    BY <1>4, <1>7 DEF Inv
  <2>2. \A d \in Calls : d # c => call[d].pc \in Idling /\ call'[d] = call[d]
    BY <1>1, <1>2, <1>3, <1>4, <2>1, OnlyOne DEF Idling, Advances
  <2>3. OneInFlight'
    BY <2>2, StaysOne
  <2>4. QED BY <1>1, <1>2, <1>3, <1>4, <2>1, <2>2, <2>3
            DEF Types, TypeOK, Placed, Lasting, Alone, Key, Making, Filing, Applying, Idling, NoText, Torn, Calls, Passed, Advances
<1>8. ASSUME ~overlapped', crashed' = 0 PROVE Undisturbed'
  <2>1. Alone /\ Undisturbed
    BY <1>4, <1>8 DEF Inv
  <2>2. \A d \in Calls : d # c => call[d].pc \in Idling /\ call'[d] = call[d]
    BY <1>1, <1>2, <1>3, <1>4, <2>1, OnlyOne DEF Idling, Advances
  <2>3. ASSUME NEW key \in Keys
        PROVE  (review[key] = Torn => \E d \in Calls : call[d].pc = "copying" /\ Key(d) = key)'
    BY <1>1, <1>2, <1>3, <1>4, <2>1, <2>2 DEF Types, TypeOK, Lasting, Alone, Undisturbed, Key, Idling, NoText, Torn, Calls, Advances
  <2>4. ASSUME NEW key \in Keys
        PROVE  (master[key] = Torn => \E d \in Calls : call[d].pc = "promoting" /\ call[d].key = key)'
    BY <1>1, <1>2, <1>3, <1>4, <2>1, <2>2 DEF Types, TypeOK, Lasting, Alone, Undisturbed, Key, Applying, Idling, NoText, Torn, Calls, Advances
  <2>5. ASSUME NEW key \in Keys
        PROVE  (meta[key].status = "pending_review" =>
                  \/ review[key] \in Calls /\ meta[key].text = tested[review[key]]
                  \/ \E d \in Calls : call[d].pc \in {"copying", "describe"} /\ Key(d) = key)'
    BY <1>1, <1>2, <1>3, <1>4, <2>1, <2>2 DEF Types, TypeOK, Alone, Undisturbed, Key, Filing, Idling, Passed, Advances
  <2>6. ASSUME NEW key \in Keys
        PROVE  (master[key] # NoText =>
                  \/ /\ meta[key].status = "promoted" /\ review[key] \in Calls
                     /\ meta[key].text = tested[review[key]]
                  \/ \E d \in Calls : call[d].pc \in Applying /\ call[d].key = key)'
    BY <1>1, <1>2, <1>3, <1>4, <2>1, <2>2 DEF Types, TypeOK, Lasting, Alone, Undisturbed, Key, Making, Filing, Applying, Idling, NoText, Passed, Advances
  <2>7. ASSUME NEW d \in Calls, (call[d].pc \in Applying)'
        PROVE  (review[call[d].key] \in Calls /\ call[d].result = tested[review[call[d].key]])'
    BY <1>1, <1>2, <1>3, <1>4, <2>1, <2>2, <2>7 DEF Types, TypeOK, Placed, Alone, Undisturbed, Key, Applying, Idling, Advances
  <2>8. QED BY <2>3, <2>4, <2>5, <2>6, <2>7 DEF Undisturbed
<1>9. QED BY <1>5, <1>6, <1>7, <1>8 DEF Inv

\* The step that opens the description to mark it keeps the invariant.
LEMMA MarkStep == ASSUME Inv, NEW c \in Calls, Mark(c) PROVE Inv'
<1>1. Types /\ Lasting
  BY DEF Inv
<1>2. /\ Goes(c, "mark", "marking") /\ "marking" \in PCs /\ Placed(call[c])
      /\ call[c].session \in Sessions
      /\ "marking" \in Filing => Passed(call[c].result)
      /\ "marking" \in Applying => Passed(call[c].result) /\ call[c].key \in Keys
  BY <1>1 DEF Mark, Types, CallTypes, Placed, Goes, PCs, Making, Filing, Applying, Idling, AfterCycle
<1>3. Advances(c, "mark", "marking")
  BY <1>1, <1>2, Moved
<1>4. /\ meta' = [meta EXCEPT ![call[c].key] = TornMeta]
      /\ auto' = auto /\ draft' = draft /\ review' = review /\ master' = master /\ outcomes' = outcomes
      /\ tested' = tested /\ changes' = changes /\ crashed' = crashed /\ overlapped' = overlapped
  BY DEF Mark, history
<1>5. Types'
  BY <1>1, <1>2, <1>3, <1>4 DEF Types, TypeOK, Texts, CallTypes, Evidence, Advances
<1>6. Lasting'
  BY <1>1, <1>2, <1>3, <1>4 DEF Types, TypeOK, Placed, Lasting, Key, Making, Filing, Applying, NoText, Torn, Calls, Advances, TornMeta
<1>7. ASSUME ~overlapped' PROVE Alone'
  <2>1. Alone
    BY <1>4, <1>7 DEF Inv
  <2>2. \A d \in Calls : d # c => call[d].pc \in Idling /\ call'[d] = call[d]
    BY <1>1, <1>2, <1>3, <1>4, <2>1, OnlyOne DEF Idling, Advances
  <2>3. OneInFlight'
    BY <2>2, StaysOne
  <2>4. QED BY <1>1, <1>2, <1>3, <1>4, <2>1, <2>2, <2>3
            DEF Types, TypeOK, Placed, Lasting, Alone, Key, Making, Filing, Applying, Idling, NoText, Torn, Calls, Passed, Advances, TornMeta
<1>8. ASSUME ~overlapped', crashed' = 0 PROVE Undisturbed'
  <2>1. Alone /\ Undisturbed
    BY <1>4, <1>8 DEF Inv
  <2>2. \A d \in Calls : d # c => call[d].pc \in Idling /\ call'[d] = call[d]
    BY <1>1, <1>2, <1>3, <1>4, <2>1, OnlyOne DEF Idling, Advances
  <2>3. ASSUME NEW key \in Keys
        PROVE  (review[key] = Torn => \E d \in Calls : call[d].pc = "copying" /\ Key(d) = key)'
    BY <1>1, <1>2, <1>3, <1>4, <2>1, <2>2 DEF Types, TypeOK, Lasting, Alone, Undisturbed, Key, Idling, NoText, Torn, Calls, Advances, TornMeta
  <2>4. ASSUME NEW key \in Keys
        PROVE  (master[key] = Torn => \E d \in Calls : call[d].pc = "promoting" /\ call[d].key = key)'
    BY <1>1, <1>2, <1>3, <1>4, <2>1, <2>2 DEF Types, TypeOK, Lasting, Alone, Undisturbed, Key, Applying, Idling, NoText, Torn, Calls, Advances, TornMeta
  <2>5. ASSUME NEW key \in Keys
        PROVE  (meta[key].status = "pending_review" =>
                  \/ review[key] \in Calls /\ meta[key].text = tested[review[key]]
                  \/ \E d \in Calls : call[d].pc \in {"copying", "describe"} /\ Key(d) = key)'
    BY SMTT(30), <1>1, <1>2, <1>3, <1>4, <2>1, <2>2 DEF Types, TypeOK, Alone, Undisturbed, Key, Filing, Idling, Passed, Advances, TornMeta
  <2>6. ASSUME NEW key \in Keys
        PROVE  (master[key] # NoText =>
                  \/ /\ meta[key].status = "promoted" /\ review[key] \in Calls
                     /\ meta[key].text = tested[review[key]]
                  \/ \E d \in Calls : call[d].pc \in Applying /\ call[d].key = key)'
    BY <1>1, <1>2, <1>3, <1>4, <2>1, <2>2 DEF Types, TypeOK, Lasting, Alone, Undisturbed, Key, Making, Filing, Applying, Idling, NoText, Passed, Advances, TornMeta
  <2>7. ASSUME NEW d \in Calls, (call[d].pc \in Applying)'
        PROVE  (review[call[d].key] \in Calls /\ call[d].result = tested[review[call[d].key]])'
    BY <1>1, <1>2, <1>3, <1>4, <2>1, <2>2, <2>7 DEF Types, TypeOK, Placed, Alone, Undisturbed, Key, Applying, Idling, Advances, TornMeta
  <2>8. QED BY <2>3, <2>4, <2>5, <2>6, <2>7 DEF Undisturbed
<1>9. QED BY <1>5, <1>6, <1>7, <1>8 DEF Inv

\* The step that marks the adapter as promoted keeps the invariant.
LEMMA MarkedStep == ASSUME Inv, NEW c \in Calls, Marked(c) PROVE Inv'
<1>1. Types /\ Lasting
  BY DEF Inv
<1>2. /\ Goes(c, "marking", "scan") /\ "scan" \in PCs /\ Placed(call[c])
      /\ call[c].session \in Sessions
      /\ "scan" \in Filing => Passed(call[c].result)
      /\ "scan" \in Applying => Passed(call[c].result) /\ call[c].key \in Keys
  BY <1>1 DEF Marked, Types, CallTypes, Placed, Goes, PCs, Making, Filing, Applying, Idling, AfterCycle
<1>3. Advances(c, "marking", "scan")
  BY <1>1, <1>2, Moved
<1>4. /\ meta' = [meta EXCEPT ![call[c].key] = [status |-> "promoted", text |-> call[c].result]]
      /\ auto' = auto /\ draft' = draft /\ review' = review /\ master' = master /\ outcomes' = outcomes
      /\ tested' = tested /\ changes' = changes /\ crashed' = crashed /\ overlapped' = overlapped
  BY DEF Marked, history
<1>5. Types'
  <2>1. call[c].result \in Evidence
    BY <1>2, <1>3 DEF Placed, Filing, Applying, Passed, Evidence, Advances
  <2>2. [status |-> "promoted", text |-> call[c].result] \in Metas
    BY <2>1 DEF Metas
  <2>3. meta \in [Keys -> Metas]
    BY <1>1 DEF Types, TypeOK, Metas
  <2>4. meta' \in [Keys -> Metas]
    BY <1>4, <2>2, <2>3
  <2>5. QED BY <1>1, <1>3, <1>4, <2>4 DEF Types, TypeOK, Metas, CallTypes, Advances
<1>6. Lasting'
  BY <1>1, <1>2, <1>3, <1>4 DEF Types, TypeOK, Placed, Lasting, Key, Making, Filing, Applying, NoText, Torn, Calls, Advances
<1>7. ASSUME ~overlapped' PROVE Alone'
  <2>1. Alone
    BY <1>4, <1>7 DEF Inv
  <2>2. \A d \in Calls : d # c => call[d].pc \in Idling /\ call'[d] = call[d]
    BY <1>1, <1>2, <1>3, <1>4, <2>1, OnlyOne DEF Idling, Advances
  <2>3. OneInFlight'
    BY <2>2, StaysOne
  <2>4. QED BY <1>1, <1>2, <1>3, <1>4, <2>1, <2>2, <2>3
            DEF Types, TypeOK, Placed, Lasting, Alone, Key, Making, Filing, Applying, Idling, NoText, Torn, Calls, Passed, Advances
<1>8. ASSUME ~overlapped', crashed' = 0 PROVE Undisturbed'
  <2>1. Alone /\ Undisturbed
    BY <1>4, <1>8 DEF Inv
  <2>2. \A d \in Calls : d # c => call[d].pc \in Idling /\ call'[d] = call[d]
    BY <1>1, <1>2, <1>3, <1>4, <2>1, OnlyOne DEF Idling, Advances
  <2>3. ASSUME NEW key \in Keys
        PROVE  (review[key] = Torn => \E d \in Calls : call[d].pc = "copying" /\ Key(d) = key)'
    BY <1>1, <1>2, <1>3, <1>4, <2>1, <2>2 DEF Types, TypeOK, Lasting, Alone, Undisturbed, Key, Idling, NoText, Torn, Calls, Advances
  <2>4. ASSUME NEW key \in Keys
        PROVE  (master[key] = Torn => \E d \in Calls : call[d].pc = "promoting" /\ call[d].key = key)'
    BY <1>1, <1>2, <1>3, <1>4, <2>1, <2>2 DEF Types, TypeOK, Lasting, Alone, Undisturbed, Key, Applying, Idling, NoText, Torn, Calls, Advances
  <2>5. ASSUME NEW key \in Keys
        PROVE  (meta[key].status = "pending_review" =>
                  \/ review[key] \in Calls /\ meta[key].text = tested[review[key]]
                  \/ \E d \in Calls : call[d].pc \in {"copying", "describe"} /\ Key(d) = key)'
    BY <1>1, <1>2, <1>3, <1>4, <2>1, <2>2 DEF Types, TypeOK, Alone, Undisturbed, Key, Filing, Idling, Passed, Advances
  <2>6. ASSUME NEW key \in Keys
        PROVE  (master[key] # NoText =>
                  \/ /\ meta[key].status = "promoted" /\ review[key] \in Calls
                     /\ meta[key].text = tested[review[key]]
                  \/ \E d \in Calls : call[d].pc \in Applying /\ call[d].key = key)'
    BY <1>1, <1>2, <1>3, <1>4, <2>1, <2>2 DEF Types, TypeOK, Lasting, Alone, Undisturbed, Key, Making, Filing, Applying, Idling, NoText, Passed, Advances
  <2>7. ASSUME NEW d \in Calls, (call[d].pc \in Applying)'
        PROVE  (review[call[d].key] \in Calls /\ call[d].result = tested[review[call[d].key]])'
    BY <1>1, <1>2, <1>3, <1>4, <2>1, <2>2, <2>7 DEF Types, TypeOK, Placed, Alone, Undisturbed, Key, Applying, Idling, Advances
  <2>8. QED BY <2>3, <2>4, <2>5, <2>6, <2>7 DEF Undisturbed
<1>9. QED BY <1>5, <1>6, <1>7, <1>8 DEF Inv

\* The step that writes the outcomes keeps the invariant.
LEMMA RecordStep == ASSUME Inv, NEW c \in Calls, Record(c) PROVE Inv'
<1>1. Types /\ Lasting
  BY DEF Inv
<1>2. /\ Goes(c, "record", "rules") /\ "rules" \in PCs /\ Placed(call[c])
      /\ call[c].session \in Sessions
      /\ "rules" \in Filing => Passed(call[c].result)
      /\ "rules" \in Applying => Passed(call[c].result) /\ call[c].key \in Keys
  BY <1>1 DEF Record, Types, CallTypes, Placed, Goes, PCs, Making, Filing, Applying, Idling, AfterCycle
<1>3. Advances(c, "record", "rules")
  BY <1>1, <1>2, Moved
<1>4. /\ outcomes' \subseteq Sessions
      /\ auto' = auto /\ draft' = draft /\ review' = review /\ meta' = meta /\ master' = master
      /\ tested' = tested /\ changes' = changes /\ crashed' = crashed /\ overlapped' = overlapped
  BY <1>2 DEF Record, history, Placed, CallTypes
<1>5. Types'
  BY <1>1, <1>2, <1>3, <1>4 DEF Types, TypeOK, Texts, CallTypes, Evidence, Advances
<1>6. Lasting'
  BY <1>1, <1>2, <1>3, <1>4 DEF Types, TypeOK, Placed, Lasting, Key, Making, Filing, Applying, NoText, Torn, Calls, Advances
<1>7. ASSUME ~overlapped' PROVE Alone'
  <2>1. Alone
    BY <1>4, <1>7 DEF Inv
  <2>2. \A d \in Calls : d # c => call[d].pc \in Idling /\ call'[d] = call[d]
    BY <1>1, <1>2, <1>3, <1>4, <2>1, OnlyOne DEF Idling, Advances
  <2>3. OneInFlight'
    BY <2>2, StaysOne
  <2>4. QED BY <1>1, <1>2, <1>3, <1>4, <2>1, <2>2, <2>3
            DEF Types, TypeOK, Placed, Lasting, Alone, Key, Making, Filing, Applying, Idling, NoText, Torn, Calls, Passed, Advances
<1>8. ASSUME ~overlapped', crashed' = 0 PROVE Undisturbed'
  <2>1. Alone /\ Undisturbed
    BY <1>4, <1>8 DEF Inv
  <2>2. \A d \in Calls : d # c => call[d].pc \in Idling /\ call'[d] = call[d]
    BY <1>1, <1>2, <1>3, <1>4, <2>1, OnlyOne DEF Idling, Advances
  <2>3. QED BY <1>3, <1>4, <2>1 DEF Undisturbed, Key, Applying, Advances
<1>9. QED BY <1>5, <1>6, <1>7, <1>8 DEF Inv

\* A step that only changes the call, to a place where it works on no adapter.
LEMMA CallStep ==
  ASSUME Inv, NEW c \in Calls, NEW l \in CallTypes, call' = [call EXCEPT ![c] = l], Placed(l),
         UNCHANGED <<auto, files, history>>,
         call[c].pc \in {"load", "rules", "scan"},
         \/ l.pc \in {"record", "end"}
         \/ l.pc = "scan" /\ \A key \in Keys \ l.todo :
                                  ~overlapped /\ meta[key].status = "pending_review" => master[key] # NoText
  PROVE  Inv'
<1>1. Types /\ Lasting
  BY DEF Inv
<1>2. /\ call' \in [Calls -> CallTypes] /\ call'[c] = l
      /\ \A d \in Calls : d # c => call'[d] = call[d]
      /\ \A d \in Calls : Placed(call'[d])
  BY <1>1, Update
<1>3. /\ auto' = auto /\ draft' = draft /\ review' = review /\ meta' = meta /\ master' = master
      /\ outcomes' = outcomes /\ tested' = tested /\ changes' = changes
      /\ crashed' = crashed /\ overlapped' = overlapped
  BY DEF files, history
<1>4. Types'
  BY <1>1, <1>2, <1>3 DEF Types, TypeOK, CallTypes
<1>5. Lasting'
  BY <1>1, <1>2, <1>3 DEF Lasting, Key, Applying
<1>6. ASSUME ~overlapped' PROVE Alone'
  <2>1. Alone
    BY <1>3, <1>6 DEF Inv
  <2>2. \A d \in Calls : d # c => call[d].pc \in Idling /\ call'[d] = call[d]
    BY <1>2, <2>1, OnlyOne DEF Idling
  <2>3. OneInFlight'
    BY <2>2, StaysOne
  <2>4. QED BY <1>2, <1>3, <1>6, <2>1, <2>2, <2>3 DEF Alone, Key, Making, Filing, Applying, Idling
<1>7. ASSUME ~overlapped', crashed' = 0 PROVE Undisturbed'
  <2>1. Undisturbed
    BY <1>3, <1>7 DEF Inv
  <2>2. QED BY <1>2, <1>3, <2>1 DEF Undisturbed, Key, Applying
<1>8. QED BY <1>4, <1>5, <1>6, <1>7 DEF Inv

\* The step that loads the outcomes keeps the invariant.
LEMMA LoadStep == ASSUME Inv, NEW c \in Calls, Load(c) PROVE Inv'
<1> DEFINE l == [call[c] EXCEPT !.pc = "record", !.known = outcomes]
<1>1. Types
  BY DEF Inv
<1>2. call[c] \in CallTypes /\ Placed(call[c]) /\ outcomes \subseteq Sessions /\ call[c].pc = "load"
  BY <1>1 DEF Types, TypeOK, Load
<1>3. l \in CallTypes /\ l.pc = "record" /\ l.session = call[c].session
  BY <1>2 DEF CallTypes, PCs
<1>4. call' = [call EXCEPT ![c] = l] /\ UNCHANGED <<auto, files, history>>
  BY DEF Load
<1> HIDE DEF l
<1>5. Placed(l)
  BY <1>2, <1>3 DEF Placed, Idling, Filing, Applying
<1>6. QED BY <1>2, <1>3, <1>4, <1>5, CallStep

\* A call that ends leaves nothing behind.
LEMMA EndedPlaced == Ended \in CallTypes /\ Placed(Ended) /\ Ended.pc = "end"
<1>1. Ended \in CallTypes /\ Ended.pc = "end"
  BY DEF Ended, New, CallTypes, PCs, Idling, Texts
<1>2. QED BY <1>1 DEF Placed, Idling, Filing, Applying

\* The step that reads the rules keeps the invariant.
LEMMA RulesStep == ASSUME Inv, NEW c \in Calls, Rules(c) PROVE Inv'
<1>1. Types
  BY DEF Inv
<1>2. /\ call[c] \in CallTypes /\ Placed(call[c]) /\ call[c].pc = "rules"
      /\ UNCHANGED <<auto, files, history>>
  BY <1>1 DEF Types, Rules
<1>3. CASE auto
  <2> DEFINE l == [call[c] EXCEPT !.pc = "scan", !.todo = Keys]
  <2>1. l \in CallTypes /\ l.pc = "scan" /\ l.session = call[c].session /\ l.todo = Keys
    BY <1>2 DEF CallTypes, PCs
  <2>2. call' = [call EXCEPT ![c] = l]
    BY <1>3 DEF Rules
  <2> HIDE DEF l
  <2>3. Placed(l)
    BY <1>2, <2>1 DEF Placed, Idling, Filing, Applying
  <2>4. QED BY <1>2, <2>1, <2>2, <2>3, CallStep
<1>4. CASE ~auto
  <2>1. call' = [call EXCEPT ![c] = Ended]
    BY <1>4 DEF Rules
  <2>2. QED BY <1>2, <2>1, EndedPlaced, CallStep
<1>5. QED BY <1>3, <1>4

\* The step that ends the event keeps the invariant.
LEMMA EventEndsStep == ASSUME Inv, NEW c \in Calls, EventEnds(c) PROVE Inv'
<1>1. /\ call[c].pc = "scan" /\ call' = [call EXCEPT ![c] = Ended]
      /\ UNCHANGED <<auto, files, history>>
  BY DEF EventEnds
<1>2. QED BY <1>1, EndedPlaced, CallStep

\* An adapter is passed over only when it is in master/ already.
LEMMA ConsiderStep == ASSUME Inv, NEW c \in Calls, Consider(c) PROVE Inv'
<1>1. Types /\ Lasting
  BY DEF Inv
<1>2. call[c] \in CallTypes /\ Placed(call[c]) /\ call[c].pc = "scan"
  BY <1>1 DEF Types, Consider
<1>3. PICK key \in call[c].todo :
        \/ /\ Promotable(key)
           /\ master' = [master EXCEPT ![key] = Torn]
           /\ call' = [call EXCEPT ![c].pc = "promoting", ![c].key = key, ![c].todo = @ \ {key},
                                   ![c].result = meta[key].text]
        \/ /\ ~Promotable(key)
           /\ call' = [call EXCEPT ![c].todo = @ \ {key}]
           /\ master' = master
  BY DEF Consider
<1>4. /\ auto' = auto /\ draft' = draft /\ review' = review /\ meta' = meta /\ outcomes' = outcomes
      /\ tested' = tested /\ changes' = changes /\ crashed' = crashed /\ overlapped' = overlapped
  BY DEF Consider, history
<1>5. key \in Keys /\ call[c].session \in Sessions
  BY <1>2 DEF Placed, CallTypes, Idling
<1>6. CASE ~Promotable(key)
  <2> DEFINE l == [call[c] EXCEPT !.todo = call[c].todo \ {key}]
  <2>1. /\ l \in CallTypes /\ l.pc = "scan" /\ l.session = call[c].session
        /\ l.todo = call[c].todo \ {key}
    BY <1>2 DEF CallTypes
  <2>2. call' = [call EXCEPT ![c] = l] /\ master' = master
    BY <1>3, <1>6
  <2> HIDE DEF l
  <2>3. Placed(l)
    BY <1>2, <2>1 DEF Placed, Idling, Filing, Applying
  <2>4. meta[key].status = "pending_review" => master[key] # NoText
    BY <1>1, <1>5, <1>6 DEF Lasting, Promotable, HasMasterAdapter
  <2>5. ~overlapped => \A k \in Keys \ l.todo : meta[k].status = "pending_review" => master[k] # NoText
    BY <1>2, <2>1, <2>4 DEF Inv, Alone
  <2>6. UNCHANGED <<auto, files, history>>
    BY <1>4, <2>2 DEF files, history
  <2>7. QED BY <1>2, <2>1, <2>2, <2>3, <2>5, <2>6, CallStep
<1>7. CASE Promotable(key)
  <2> DEFINE l == [call[c] EXCEPT !.pc = "promoting", !.key = key, !.todo = call[c].todo \ {key},
                                  !.result = meta[key].text]
  <2>1. meta[key].status = "pending_review" /\ Passed(meta[key].text) /\ master[key] = NoText /\ review[key] # NoText
    BY <1>7 DEF Promotable, HasMasterAdapter
  <2>2. /\ l \in CallTypes /\ l.pc = "promoting" /\ l.session = call[c].session
        /\ l.todo = call[c].todo \ {key} /\ l.key = key /\ l.result = meta[key].text
    BY <1>2, <1>5, <2>1 DEF CallTypes, PCs, Applying, Passed, Evidence
  <2>3. call' = [call EXCEPT ![c] = l] /\ master' = [master EXCEPT ![key] = Torn]
    BY <1>3, <1>7
  <2> HIDE DEF l
  <2>4. Placed(l)
    BY <1>5, <2>1, <2>2 DEF Placed, Idling, Filing, Applying
  <2>5. /\ call' \in [Calls -> CallTypes] /\ call'[c] = l
        /\ \A d \in Calls : d # c => call'[d] = call[d]
        /\ \A d \in Calls : Placed(call'[d])
    BY <1>1, <2>2, <2>3, <2>4, Update
  <2>6. Types'
    BY <1>1, <1>4, <2>3, <2>5 DEF Types, TypeOK, CallTypes, Texts
  <2>7. Lasting'
    BY <1>1, <1>2, <1>4, <1>5, <2>1, <2>2, <2>3, <2>5
       DEF Lasting, Types, TypeOK, Placed, Key, Applying, NoText, Torn
  <2>8. ASSUME ~overlapped' PROVE Alone'
    <3>1. Alone
      BY <1>4, <2>8 DEF Inv
    <3>2. \A d \in Calls : d # c => call[d].pc \in Idling /\ call'[d] = call[d]
      BY <1>2, <2>5, <3>1, OnlyOne DEF Idling
    <3>3. OneInFlight'
      BY <2>5, <3>2, StaysOne
    <3>4. \A k \in Keys \ l.todo : meta[k].status = "pending_review" => (master[k] # NoText)'
      BY <1>1, <1>2, <1>4, <1>5, <2>2, <2>3, <3>1 DEF Alone, Types, TypeOK, NoText, Torn
    <3>5. \A k \in Keys : /\ (master[k] \in Calls => Passed(tested[master[k]]))'
                          /\ (meta[k].status = "promoted" => master[k] = review[k])'
      BY <1>1, <1>4, <1>5, <2>1, <2>3, <3>1 DEF Alone, Types, TypeOK, Torn, Calls
    <3>6. QED BY <1>4, <2>2, <2>5, <3>1, <3>2, <3>3, <3>4, <3>5
              DEF Alone, Key, Making, Filing, Applying, Idling
  <2>9. ASSUME ~overlapped', crashed' = 0 PROVE Undisturbed'
    <3>1. Alone /\ Undisturbed
      BY <1>4, <2>9 DEF Inv
    <3>2. \A d \in Calls : d # c => call[d].pc \in Idling /\ call'[d] = call[d]
      BY <1>2, <2>5, <3>1, OnlyOne DEF Idling
    <3>3. review[key] \in Calls /\ meta[key].text = tested[review[key]]
      BY <1>2, <1>5, <2>1, <3>1, <3>2 DEF Undisturbed, Idling
    <3>4. \A k \in Keys :
            /\ (review[k] = Torn => \E d \in Calls : call[d].pc = "copying" /\ Key(d) = k)'
            /\ (master[k] = Torn => \E d \in Calls : call[d].pc = "promoting" /\ call[d].key = k)'
      BY <1>1, <1>2, <1>4, <2>2, <2>3, <2>5, <3>1, <3>2 DEF Undisturbed, Types, TypeOK, Key, Idling
    <3>5. \A k \in Keys :
            (meta[k].status = "pending_review" =>
               \/ review[k] \in Calls /\ meta[k].text = tested[review[k]]
               \/ \E d \in Calls : call[d].pc \in {"copying", "describe"} /\ Key(d) = k)'
      BY <1>2, <1>4, <2>5, <3>1, <3>2 DEF Undisturbed, Key, Idling
    <3>6. \A k \in Keys :
            (master[k] # NoText =>
               \/ /\ meta[k].status = "promoted" /\ review[k] \in Calls
                  /\ meta[k].text = tested[review[k]]
               \/ \E d \in Calls : call[d].pc \in Applying /\ call[d].key = k)'
      BY <1>1, <1>2, <1>4, <2>2, <2>3, <2>5, <3>1, <3>2
         DEF Undisturbed, Types, TypeOK, Applying, Idling
    <3>7. \A d \in Calls : (call[d].pc \in Applying =>
            review[call[d].key] \in Calls /\ call[d].result = tested[review[call[d].key]])'
      BY <1>4, <2>2, <2>5, <3>1, <3>2, <3>3 DEF Undisturbed, Applying, Idling
    <3>8. QED BY <3>4, <3>5, <3>6, <3>7 DEF Undisturbed
  <2>10. QED BY <2>6, <2>7, <2>8, <2>9 DEF Inv
<1>8. QED BY <1>6, <1>7

\* A call that begins while no other is in flight finds what the last one left.
LEMMA BeginStep == ASSUME Inv, NEW c \in Calls, Begin(c) PROVE Inv'
<1>1. Types /\ Lasting /\ call[c].pc = "new"
  BY DEF Inv, Begin
<1>2. PICK s \in Sessions, event \in BOOLEAN, workers \in BOOLEAN :
        call' = [call EXCEPT ![c] =
          [New EXCEPT !.session = s, !.event = event,
             !.pc = IF workers /\ ~HasMasterAdapter(KeyOf[s]) THEN "generate" ELSE AfterCycle(event)]]
  BY DEF Begin
<1>3. /\ auto' = auto /\ draft' = draft /\ review' = review /\ meta' = meta /\ master' = master
      /\ outcomes' = outcomes /\ tested' = tested /\ changes' = changes /\ crashed' = crashed
      /\ overlapped' = (overlapped \/ InFlight # {})
  BY DEF Begin, files
<1> DEFINE place == IF workers /\ ~HasMasterAdapter(KeyOf[s]) THEN "generate" ELSE AfterCycle(event)
           l == [New EXCEPT !.session = s, !.event = event, !.pc = place]
<1>4. place \in {"generate", "load", "end"} /\ (place = "generate" => master[KeyOf[s]] = NoText)
  BY DEF AfterCycle, HasMasterAdapter
<1>5. call' = [call EXCEPT ![c] = l]
  BY <1>2
<1> HIDE DEF place
<1>6. l \in CallTypes /\ l.pc = place /\ l.session = s
  BY <1>4 DEF New, CallTypes, Texts, PCs, Making, Idling
<1> HIDE DEF l
<1>7. Placed(l)
  BY <1>4, <1>6 DEF Placed, Idling, Filing, Applying
<1>8. /\ call' \in [Calls -> CallTypes] /\ call'[c] = l
      /\ \A d \in Calls : d # c => call'[d] = call[d]
      /\ \A d \in Calls : Placed(call'[d])
  BY <1>1, <1>5, <1>6, <1>7, Update
<1>9. Types'
  <2>1. overlapped' \in BOOLEAN
    BY <1>3, Zenon
  <2>2. \A d \in Calls : /\ call'[d].session \in Sessions \cup {"none"}
                         /\ call'[d].text \in Texts /\ call'[d].todo \subseteq Keys
    BY <1>8 DEF CallTypes
  <2>3. QED BY <1>1, <1>3, <1>8, <2>1, <2>2, Zenon DEF Types, TypeOK
<1>10. Lasting'
  BY <1>1, <1>3, <1>4, <1>6, <1>8 DEF Lasting, Key, Applying
<1>11. ASSUME ~overlapped' PROVE Alone' /\ ~overlapped /\ \A d \in Calls : call[d].pc \in Idling
  <2>1. Alone /\ ~overlapped /\ InFlight = {}
    BY <1>3, <1>11 DEF Inv
  <2>2. \A d \in Calls : call[d].pc \in Idling
    BY <2>1 DEF InFlight, Idling
  <2>3. OneInFlight'
    BY <1>8, <2>2, StaysOne
  <2>4. (Key(c) = KeyOf[s])'
    BY <1>6, <1>8 DEF Key
  <2>5. QED BY <1>1, <1>3, <1>4, <1>6, <1>8, <2>1, <2>2, <2>3, <2>4
            DEF Alone, Key, Making, Filing, Applying, Idling
<1>12. ASSUME ~overlapped', crashed' = 0 PROVE Undisturbed'
  <2>1. Undisturbed /\ \A d \in Calls : call[d].pc \in Idling
    BY <1>3, <1>11, <1>12 DEF Inv
  <2>2. QED BY <1>3, <1>4, <1>6, <1>8, <2>1 DEF Undisturbed, Key, Applying, Idling
<1>13. QED BY <1>9, <1>10, <1>11, <1>12 DEF Inv

\* Only the call's own adapter is tested, which nobody has seen before.
LEMMA SelfTestStep == ASSUME Inv, NEW c \in Calls, SelfTest(c) PROVE Inv'
<1> DEFINE text == draft[call[c].session]
<1>1. /\ Types /\ Lasting /\ call[c].pc = "test" /\ call[c] \in CallTypes /\ Placed(call[c])
      /\ call[c].session \in Sessions
  BY DEF Inv, SelfTest, Types, Placed, Idling
<1>2. PICK result \in IF text = Torn THEN {"adapter_failed"} ELSE Evidence :
        /\ call' = [call EXCEPT ![c].result = result,
                                ![c].pc = IF Passed(result) THEN "register" ELSE AfterCycle(call[c].event)]
        /\ tested' = IF text = Torn THEN tested ELSE [tested EXCEPT ![text] = result]
  BY DEF SelfTest
<1>3. /\ auto' = auto /\ draft' = draft /\ review' = review /\ meta' = meta /\ master' = master
      /\ outcomes' = outcomes /\ changes' = changes /\ crashed' = crashed /\ overlapped' = overlapped
  BY DEF SelfTest, files
<1>4. result \in Evidence
  BY DEF Evidence
<1> DEFINE place == IF Passed(result) THEN "register" ELSE AfterCycle(call[c].event)
           l == [call[c] EXCEPT !.result = result, !.pc = place]
<1>5. place \in {"register", "load", "end"} /\ (place = "register" => Passed(result))
  BY <1>1 DEF AfterCycle
<1>6. call' = [call EXCEPT ![c] = l]
  BY <1>2
<1> HIDE DEF place
<1>7. l \in CallTypes /\ l.pc = place /\ l.session = call[c].session /\ l.result = result
  BY <1>1, <1>4, <1>5 DEF CallTypes, PCs, Filing, Idling
<1> HIDE DEF l
<1>8. Placed(l)
  BY <1>1, <1>5, <1>7 DEF Placed, Idling, Applying, Filing
<1>9. /\ call' \in [Calls -> CallTypes] /\ call'[c] = l
      /\ \A d \in Calls : d # c => call'[d] = call[d]
      /\ \A d \in Calls : Placed(call'[d])
  BY <1>1, <1>6, <1>7, <1>8, Update
<1>10. Types'
  <2>1. tested' \in [Calls -> Evidence \cup {"none"}]
    BY <1>1, <1>2, <1>4 DEF Types, TypeOK
  <2>2. QED BY <1>1, <1>3, <1>9, <2>1 DEF Types, TypeOK, CallTypes
<1>11. Lasting'
  BY <1>1, <1>3, <1>5, <1>7, <1>9 DEF Lasting, Key, Applying
<1>12. ASSUME ~overlapped'
       PROVE  /\ Alone /\ tested' = [tested EXCEPT ![c] = result] /\ tested[c] = "none"
              /\ tested \in [Calls -> Evidence \cup {"none"}]
              /\ \A x \in Calls : Passed(tested[x]) => tested'[x] = tested[x] /\ x # c
  <2>1. Alone
    BY <1>3, <1>12 DEF Inv
  <2>2. text = c /\ tested[c] = "none"
    BY <1>1, <2>1 DEF Alone, Making
  <2>3. tested' = [tested EXCEPT ![c] = result]
    BY <1>2, <2>2 DEF Torn, Calls
  <2>4. tested \in [Calls -> Evidence \cup {"none"}]
    BY <1>1 DEF Types, TypeOK
  <2>5. QED BY <2>1, <2>2, <2>3, <2>4 DEF Passed
<1>13. ASSUME ~overlapped' PROVE Alone'
  <2>1. \A d \in Calls : d # c => call[d].pc \in Idling /\ call'[d] = call[d]
    BY <1>1, <1>9, <1>12, <1>13, OnlyOne DEF Idling
  <2>2. OneInFlight'
    BY <1>9, <2>1, StaysOne
  <2>3. \A key \in Keys :
          /\ (review[key] \in Calls => Passed(tested[review[key]]))'
          /\ (master[key] \in Calls => Passed(tested[master[key]]))'
    BY <1>3, <1>12, <1>13 DEF Alone
  <2>4. QED BY <1>1, <1>3, <1>5, <1>7, <1>9, <1>12, <1>13, <2>1, <2>2, <2>3
            DEF Alone, Key, Making, Filing, Applying, Idling
<1>14. ASSUME ~overlapped', crashed' = 0 PROVE Undisturbed'
  <2>1. Undisturbed /\ Alone
    BY <1>3, <1>14 DEF Inv
  <2>2. \A key \in Keys : review[key] \in Calls => tested'[review[key]] = tested[review[key]]
    BY <1>12, <1>14, <2>1 DEF Alone
  <2>3. \A d \in Calls : call'[d].pc \in Applying => call[d].key \in Keys /\ d # c
    BY <1>1, <1>5, <1>7, <1>9 DEF Types, Placed, Applying
  <2>4. QED BY <1>1, <1>3, <1>5, <1>7, <1>9, <2>1, <2>2, <2>3 DEF Undisturbed, Key, Applying
<1>15. QED BY <1>10, <1>11, <1>13, <1>14 DEF Inv

\* The copy is of the adapter this call has tested.
LEMMA RegisterStep == ASSUME Inv, NEW c \in Calls, Register(c) PROVE Inv'
<1>1. /\ Types /\ Lasting /\ call[c].pc = "register" /\ call[c] \in CallTypes /\ Placed(call[c])
      /\ call[c].session \in Sessions /\ Passed(call[c].result)
  BY DEF Inv, Register, Types, Placed, Idling, Filing
<1> DEFINE l == [call[c] EXCEPT !.pc = "copying", !.text = draft[call[c].session]]
<1>2. /\ call' = [call EXCEPT ![c] = l]
      /\ review' = [review EXCEPT ![Key(c)] = Torn]
      /\ auto' = auto /\ draft' = draft /\ meta' = meta /\ master' = master /\ outcomes' = outcomes
      /\ tested' = tested /\ changes' = changes /\ crashed' = crashed /\ overlapped' = overlapped
  BY DEF Register, history
<1>3. draft[call[c].session] \in Texts \ {NoText} /\ Key(c) \in Keys
  BY <1>1, KeysAssumption DEF Types, TypeOK, Lasting, Key
<1>4. /\ l \in CallTypes /\ l.pc = "copying" /\ l.session = call[c].session
      /\ l.text = draft[call[c].session] /\ l.result = call[c].result
  BY <1>1, <1>3 DEF CallTypes, PCs, Filing
<1> HIDE DEF l
<1>5. Placed(l)
  BY <1>1, <1>4 DEF Placed, Filing, Applying, Idling
<1>6. /\ call' \in [Calls -> CallTypes] /\ call'[c] = l
      /\ \A d \in Calls : d # c => call'[d] = call[d]
      /\ \A d \in Calls : Placed(call'[d])
  BY <1>1, <1>2, <1>4, <1>5, Update
<1>7. (Key(c))' = Key(c)
  BY <1>4, <1>6 DEF Key
<1>8. Types'
  BY <1>1, <1>2, <1>6 DEF Types, TypeOK, CallTypes, Texts
<1>9. Lasting'
  BY <1>1, <1>2, <1>3, <1>4, <1>6, <1>7 DEF Types, TypeOK, Lasting, Key, Applying, NoText, Torn
<1>10. ASSUME ~overlapped' PROVE Alone'
  <2>1. Alone
    BY <1>2, <1>10 DEF Inv
  <2>2. \A d \in Calls : d # c => call[d].pc \in Idling /\ call'[d] = call[d]
    BY <1>1, <1>6, <2>1, OnlyOne DEF Idling
  <2>3. OneInFlight'
    BY <2>2, StaysOne
  <2>4. \A key \in Keys :
          /\ (review[key] \in Calls => Passed(tested[review[key]]))'
          /\ (meta[key].status = "promoted" => master[key] = review[key])'
    <3>1. meta[Key(c)].status # "promoted"
      BY <1>1, <1>3, <2>1 DEF Alone, Lasting, Filing
    <3>2. QED BY <1>1, <1>2, <1>3, <2>1, <3>1 DEF Types, TypeOK, Alone, Torn, Calls
  <2>5. QED BY <1>1, <1>2, <1>4, <1>6, <1>7, <2>1, <2>2, <2>3, <2>4
            DEF Alone, Key, Making, Filing, Applying, Idling
<1>11. ASSUME ~overlapped', crashed' = 0 PROVE Undisturbed'
  <2>1. Undisturbed /\ Alone
    BY <1>2, <1>11 DEF Inv
  <2>2. \A d \in Calls : d # c => call[d].pc \in Idling /\ call'[d] = call[d]
    BY <1>1, <1>6, <2>1, OnlyOne DEF Idling
  <2>3. master[Key(c)] = NoText
    BY <1>1, <2>1 DEF Alone, Filing
  <2>4. \A key \in Keys : key # Key(c) => review'[key] = review[key]
    BY <1>1, <1>2 DEF Types, TypeOK
  <2>5. \A key \in Keys :
          /\ (review[key] = Torn => \E d \in Calls : call[d].pc = "copying" /\ Key(d) = key)'
          /\ (master[key] = Torn => \E d \in Calls : call[d].pc = "promoting" /\ call[d].key = key)'
    BY <1>1, <1>2, <1>4, <1>6, <1>7, <2>1, <2>2, <2>4 DEF Undisturbed, Key, Idling
  <2>6. \A key \in Keys :
          (meta[key].status = "pending_review" =>
             \/ review[key] \in Calls /\ meta[key].text = tested[review[key]]
             \/ \E d \in Calls : call[d].pc \in {"copying", "describe"} /\ Key(d) = key)'
    BY <1>1, <1>2, <1>4, <1>6, <1>7, <2>1, <2>2, <2>4 DEF Undisturbed, Key, Idling
  <2>7. \A key \in Keys :
          (master[key] # NoText =>
             \/ /\ meta[key].status = "promoted" /\ review[key] \in Calls
                /\ meta[key].text = tested[review[key]]
             \/ \E d \in Calls : call[d].pc \in Applying /\ call[d].key = key)'
    BY <1>1, <1>2, <1>4, <1>6, <2>1, <2>2, <2>3, <2>4 DEF Undisturbed, Applying, Idling
  <2>8. \A d \in Calls : ~(call[d].pc \in Applying)'
    BY <1>4, <1>6, <2>2 DEF Applying, Idling
  <2>9. QED BY <2>5, <2>6, <2>7, <2>8 DEF Undisturbed
<1>12. QED BY <1>8, <1>9, <1>10, <1>11 DEF Inv

-----------------------------------------------------------------------------
(* The operator and the crash.                                             *)

\* An edit of the promotion rules keeps the invariant.
LEMMA EditStep == ASSUME Inv, EditRules PROVE Inv'
<1>1. /\ draft' = draft /\ review' = review /\ meta' = meta /\ master' = master /\ outcomes' = outcomes
      /\ call' = call /\ tested' = tested /\ crashed' = crashed /\ overlapped' = overlapped
      /\ changes < MaxChanges /\ changes' = changes + 1 /\ auto' = ~auto
  BY DEF EditRules, files
<1>2. Types /\ changes \in 0..MaxChanges /\ MaxChanges \in Nat
  BY BoundsAssumption DEF Inv, Types, TypeOK
<1>3. auto' \in BOOLEAN
  BY <1>1, Zenon
<1>4. changes' \in 0..MaxChanges
  BY <1>1, <1>2
<1>5. Types'
  BY <1>1, <1>2, <1>3, <1>4, Zenon DEF Types, TypeOK
<1>6. Lasting' /\ (~overlapped => Alone') /\ (~overlapped /\ crashed = 0 => Undisturbed')
  BY <1>1 DEF Inv, Lasting, Alone, Undisturbed, OneInFlight, InFlight, Key
<1>7. QED BY <1>1, <1>5, <1>6 DEF Inv

\* A crash ends every call in flight and leaves the files as they are.
LEMMA CrashStep == ASSUME Inv, Crash PROVE Inv'
<1>1. /\ auto' = auto /\ draft' = draft /\ review' = review /\ meta' = meta /\ master' = master
      /\ outcomes' = outcomes /\ tested' = tested /\ changes' = changes /\ overlapped' = overlapped
      /\ crashed < MaxCrashes /\ crashed' = crashed + 1
      /\ call' = [c \in Calls |-> IF c \in InFlight THEN Ended ELSE call[c]]
  BY DEF Crash, files
<1>2. Types /\ Lasting /\ crashed \in 0..MaxCrashes /\ MaxCrashes \in Nat
  BY BoundsAssumption DEF Inv, Types, TypeOK
<1>3. \A c \in Calls : call[c] \in CallTypes /\ Placed(call[c])
  BY <1>2 DEF Types
<1>4. \A c \in Calls :
        /\ call'[c] \in CallTypes /\ Placed(call'[c])
        /\ call'[c].pc \in Idling
        /\ call'[c].pc = "new" => call'[c] = call[c]
  BY <1>1, <1>3, EndedPlaced DEF InFlight, Idling
<1>5. call' \in [Calls -> CallTypes]
  BY <1>1, <1>4
<1>6. crashed' \in 0..MaxCrashes /\ crashed' # 0
  BY <1>1, <1>2
<1>7. Types'
  <2>1. \A d \in Calls : /\ call'[d].session \in Sessions \cup {"none"}
                         /\ call'[d].text \in Texts /\ call'[d].todo \subseteq Keys
    BY <1>4 DEF CallTypes
  <2>2. QED BY <1>1, <1>2, <1>4, <1>5, <1>6, <2>1, Zenon DEF Types, TypeOK
<1>8. Lasting'
  BY <1>1, <1>2, <1>4 DEF Lasting, Idling, Applying
<1>9. ASSUME ~overlapped' PROVE Alone'
  <2>1. Alone
    BY <1>1, <1>9 DEF Inv
  <2>2. OneInFlight'
    BY <1>4 DEF OneInFlight, InFlight, Idling
  <2>3. QED BY <1>1, <1>4, <2>1, <2>2 DEF Alone, Making, Filing, Applying, Idling
<1>10. QED BY <1>6, <1>7, <1>8, <1>9 DEF Inv

\* The invariant holds when the orchestrator starts.
LEMMA InitInv == Init => Inv
<1> SUFFICES ASSUME Init PROVE Inv
  OBVIOUS
<1>1. \A c \in Calls : call[c] = New
  BY DEF Init
<1>2. New \in CallTypes /\ New.pc = "new" /\ New.session = "none" /\ New.text = NoText /\ New.todo = {}
  BY DEF New, CallTypes, PCs, Idling, Texts
<1>3. Placed(New)
  BY <1>2 DEF Placed, Idling, Filing, Applying
<1>4. call \in [Calls -> CallTypes]
  BY <1>2 DEF Init
<1>5. Types
  <2>1. /\ auto \in BOOLEAN /\ outcomes \subseteq Sessions /\ overlapped \in BOOLEAN
        /\ changes \in 0..MaxChanges /\ crashed \in 0..MaxCrashes
        /\ tested \in [Calls -> Evidence \cup {"none"}]
    <3>1. 0 \in 0..MaxChanges /\ 0 \in 0..MaxCrashes
      BY BoundsAssumption
    <3>2. QED BY <3>1, Zenon DEF Init
  <2>2. draft \in [Sessions -> Texts] /\ review \in [Keys -> Texts] /\ master \in [Keys -> Texts]
    BY DEF Init, Texts
  <2>3. meta \in [Keys -> {NoMeta, TornMeta} \cup [status : {"pending_review", "promoted"}, text : Evidence]]
    BY DEF Init
  <2>4. QED BY <1>1, <1>2, <1>3, <1>4, <2>1, <2>2, <2>3, Zenon DEF Types, TypeOK, Texts
<1>6. Lasting
  BY <1>1, <1>2 DEF Init, Lasting, NoMeta, Applying
<1>7. Alone
  <2>1. OneInFlight
    BY <1>1, <1>2 DEF OneInFlight, InFlight
  <2>2. QED BY <1>1, <1>2, <2>1 DEF Init, Alone, NoMeta, NoText, Calls, Making, Filing, Applying
<1>8. Undisturbed
  BY <1>1, <1>2 DEF Init, Undisturbed, NoMeta, NoText, Torn, Applying
<1>9. QED BY <1>5, <1>6, <1>7, <1>8 DEF Inv

\* The three layers hold in every state.
LEMMA Layers == Spec => []Inv
<1>1. Inv /\ [Next]_vars => Inv'
  <2> SUFFICES ASSUME Inv, [Next]_vars PROVE Inv'
    OBVIOUS
  <2>1. CASE UNCHANGED vars
    <3>1. /\ auto' = auto /\ draft' = draft /\ review' = review /\ meta' = meta /\ master' = master
          /\ outcomes' = outcomes /\ tested' = tested /\ changes' = changes /\ crashed' = crashed
          /\ overlapped' = overlapped /\ call' = call
      BY <2>1 DEF vars
    <3>2. Types'
      BY <3>1, Zenon DEF Inv, Types, TypeOK
    <3>3. Lasting' /\ (~overlapped => Alone') /\ (~overlapped /\ crashed = 0 => Undisturbed')
      BY <3>1 DEF Inv, Lasting, Alone, Undisturbed, OneInFlight, InFlight, Key
    <3>4. QED BY <3>1, <3>2, <3>3 DEF Inv
  <2>2. ASSUME NEW c \in Calls, Step(c) PROVE Inv'
    BY <2>2, BeginStep, GenerateStep, GeneratedStep, SelfTestStep, RegisterStep, CopiedStep, DescribeStep,
       DescribedStep, LoadStep, RecordStep, RulesStep, ConsiderStep, PromoteStep, MarkStep, MarkedStep,
       EventEndsStep DEF Step
  <2>3. QED BY <2>1, <2>2, EditStep, CrashStep DEF Next
<1>2. QED BY <1>1, InitInv, PTL DEF Spec

-----------------------------------------------------------------------------
(* The theorems.                                                           *)

\* The files and the locals of the calls always have their types
\* (promotion.py, adapter_registry.py).
THEOREM TypeCorrect == Spec => []TypeOK
<1>1. Inv => TypeOK
  BY DEF Inv, Types
<1>2. QED BY <1>1, Layers, PTL

\* Only an adapter that passed its self-test is in master/, unless two calls
\* overlapped; and a torn one only after a crash (patch_executor.py, promotion.py).
THEOREM TestedTheorem == Spec => []MasterIsTested
<1>1. Inv => MasterIsTested
  <2> SUFFICES ASSUME Inv, NEW key \in Keys
               PROVE  /\ master[key] \in Calls /\ ~overlapped
                           => tested[master[key]] \in {"probe_pass", "probe_no_device"}
                      /\ Quiet /\ crashed = 0 => master[key] # Torn
    BY DEF MasterIsTested
  <2>1. master[key] \in Calls /\ ~overlapped => tested[master[key]] \in {"probe_pass", "probe_no_device"}
    BY DEF Inv, Alone, Passed
  <2>2. Quiet /\ crashed = 0 => master[key] # Torn
    BY DEF Inv, Undisturbed, Quiet, InFlight
  <2>3. QED BY <2>1, <2>2
<1>2. QED BY <1>1, Layers, PTL

\* An adapter is called promoted only when it is in master/, whatever overlapped
\* or died; and it is the one under review unless two calls overlapped (promotion.py).
THEOREM PromotedTheorem == Spec => []PromotedIsInMaster
<1>1. Inv => PromotedIsInMaster
  BY DEF Inv, Lasting, Alone, PromotedIsInMaster, HasMasterAdapter
<1>2. QED BY <1>1, Layers, PTL

\* The audit of the next start misses no adapter that never saw its device
\* (promotion.py).
THEOREM AuditTheorem == Spec => []AuditIsComplete
<1>1. Inv => AuditIsComplete
  <2> SUFFICES ASSUME Inv, Quiet, crashed = 0, NEW key \in Keys, master[key] \in Calls,
                      tested[master[key]] = "probe_no_device", key \notin Confirmed
               PROVE  key \in Audit
    BY DEF AuditIsComplete
  <2>1. Alone /\ Undisturbed /\ \A c \in Calls : call[c].pc \in Idling
    BY DEF Inv, Quiet, InFlight, Idling
  <2>2. master[key] # NoText
    BY DEF NoText, Calls
  <2>3. meta[key].status = "promoted" /\ meta[key].text = tested[review[key]]
    BY <2>1, <2>2 DEF Undisturbed, Idling, Applying
  <2>4. master[key] = review[key]
    BY <2>1, <2>3 DEF Alone
  <2>5. QED BY <2>3, <2>4 DEF Audit
<1>2. QED BY <1>1, Layers, PTL

\* No device event ends while an adapter that could be promoted waits, unless
\* two calls overlapped (orchestrator.py, promotion.py).
THEOREM EventTheorem == Spec => EventPromotes
<1>1. Inv => (\A c \in Calls : EventEnds(c) /\ ~overlapped =>
                \A key \in Keys : meta[key].status = "pending_review" => HasMasterAdapter(key))
  BY DEF Inv, Alone, EventEnds, HasMasterAdapter
<1>2. QED BY <1>1, Layers, PTL DEF EventPromotes
==============================================================================
