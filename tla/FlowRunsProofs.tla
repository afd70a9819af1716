---------------------------- MODULE FlowRunsProofs ----------------------------
(***************************************************************************)
(* Proofs about FlowRuns, for any number of runs and calls.                *)
(*                                                                         *)
(* First the effect of each kind of step on calls, rows and tags is stated *)
(* pointwise (the Effect and Table lemmas).  The invariant then has five   *)
(* parts, each kept by every step given the parts before it.               *)
(***************************************************************************)
EXTENDS FlowRuns, TLAPS

Starting == {"checked", "inserted"}

\* At these stages a call has a run to itself.
Busy == Starting \cup {"selected", "answered"} \cup Driving

USE DEF Driving, Answering, Stages, Starting, Busy, Final, Phases, Irregularities

-------------------------------------------------------------------------------

\* The steps that take a call from one stage to the next.
GoesOn(c) ==
    \/ InsertRun(c) \/ SelectRun(c) \/ AnswerQuestion(c) \/ SetRunning(c) \/ LoadFlow(c)
    \/ NodeGone(c) \/ Ask(c) \/ PauseRun(c) \/ NodeFails(c) \/ PauseFails(c)
    \/ FailRun(c) \/ CompleteRun(c)

\* The steps with which a call comes to its end.
Leaves(c) == SelectFails(c) \/ AnswerFails(c) \/ Close(c) \/ Die(c)

\* A call that goes on, goes on with its run.
LEMMA MovesEffect ==
    ASSUME TypeOK, NEW c \in Calls, NEW from \in Stages \ {"idle"},
           NEW to \in Stages \ {"idle"}, Moves(c, from, to)
    PROVE  /\ runOf[c] \in Runs /\ stage[c] = from /\ stage'[c] = to
           /\ stage' \in [Calls -> Stages]
           /\ \A d \in Calls \ {c} : stage'[d] = stage[d]
           /\ UNCHANGED <<phase, runOf, registry, awaited, toMark>>
           /\ row' \in [Runs -> {"none", "running", "paused"} \cup Final]
              /\ question' \subseteq Runs /\ irregular' \in [Runs -> SUBSET Irregularities]
              => TypeOK'
<1>1. /\ stage[c] = from /\ stage' = [stage EXCEPT ![c] = to]
      /\ UNCHANGED <<phase, runOf, registry, awaited, toMark>>
  BY DEF Moves, gatewayVars
<1>2. stage' \in [Calls -> Stages] /\ stage'[c] = to /\ \A d \in Calls \ {c} : stage'[d] = stage[d]
  BY <1>1 DEF TypeOK
<1>3. runOf[c] \in Runs
  BY <1>1 DEF TypeOK
<1>4. \A d \in Calls : stage'[d] = "idle" <=> runOf'[d] = None
  BY <1>1, <1>2, <1>3, NoneIsNoId DEF TypeOK
<1>5. \A r \in Runs : registry'[r] # None => runOf'[registry'[r]] = r
  BY <1>1 DEF TypeOK
<1>6. QED
  BY <1>1, <1>2, <1>3, <1>4, <1>5 DEF TypeOK

\* What the end of a call changes.
LEMMA EndsEffect ==
    ASSUME TypeOK, NEW c \in Calls, NEW from \in Stages \ {"idle"},
           NEW tags \in SUBSET Irregularities, Ends(c, from, tags)
    PROVE  /\ runOf[c] \in Runs
           /\ stage' \in [Calls -> Stages] /\ runOf' \in [Calls -> Runs \cup {None}]
           /\ registry' \in [Runs -> Calls \cup {None}]
           /\ irregular' \in [Runs -> SUBSET Irregularities]
           /\ stage'[c] = "idle" /\ runOf'[c] = None /\ registry'[runOf[c]] = None
           /\ \A d \in Calls \ {c} : stage'[d] = stage[d] /\ runOf'[d] = runOf[d]
           /\ \A r \in Runs \ {runOf[c]} : registry'[r] = registry[r] /\ irregular'[r] = irregular[r]
           /\ irregular[runOf[c]] \subseteq irregular'[runOf[c]]
           /\ tags \subseteq irregular'[runOf[c]]
           /\ irregular'[runOf[c]] \subseteq irregular[runOf[c]] \cup tags \cup {"undriven"}
           /\ \A d \in Calls \ {c} : runOf[d] = runOf[c] => "undriven" \in irregular'[runOf[c]]
<1>0. stage[c] = from /\ from # "idle"
  BY DEF Ends
<1>1. runOf[c] \in Runs
  BY <1>0 DEF TypeOK
<1>2. /\ stage' \in [Calls -> Stages] /\ runOf' \in [Calls -> Runs \cup {None}]
      /\ stage'[c] = "idle" /\ runOf'[c] = None
      /\ \A d \in Calls \ {c} : stage'[d] = stage[d] /\ runOf'[d] = runOf[d]
  BY DEF TypeOK, Ends
<1>3. /\ registry' \in [Runs -> Calls \cup {None}] /\ registry'[runOf[c]] = None
      /\ \A r \in Runs \ {runOf[c]} : registry'[r] = registry[r]
  BY <1>1 DEF TypeOK, Ends, DeletedEntry
<1> DEFINE more == {"undriven" : d \in CallsOn(runOf[c]) \ {c}}
<1>4. more \subseteq {"undriven"} /\ \A d \in Calls \ {c} : runOf[d] = runOf[c] => "undriven" \in more
  BY DEF CallsOn
<1>5. irregular' = [irregular EXCEPT ![runOf[c]] = @ \cup tags \cup more]
  BY DEF Ends
<1> HIDE DEF more
<1>6. /\ irregular'[runOf[c]] = irregular[runOf[c]] \cup tags \cup more
      /\ \A r \in Runs \ {runOf[c]} : irregular'[r] = irregular[r]
      /\ irregular' \in [Runs -> SUBSET Irregularities]
  BY <1>1, <1>4, <1>5 DEF TypeOK
<1>7. QED
  BY <1>1, <1>2, <1>3, <1>4, <1>6

\* What the end of the process changes.
LEMMA GoneEffect ==
    ASSUME TypeOK, NEW tags \in SUBSET Irregularities, Gone(tags)
    PROVE  /\ TypeOK'
           /\ \A c \in Calls : stage'[c] = "idle" /\ runOf'[c] = None
           /\ \A r \in Runs : registry'[r] = None /\ irregular[r] \subseteq irregular'[r]
           /\ \A c \in Calls, r \in Runs : runOf[c] = r /\ stage[c] = "answered"
                    => "half answered" \in irregular'[r]
           /\ \A c \in Calls, r \in Runs : runOf[c] = r => tags \subseteq irregular'[r]
<1> DEFINE half(r) == {"half answered" : c \in {d \in CallsOn(r) : stage[d] = "answered"}}
           more(r) == {t \in tags : CallsOn(r) # {}}
<1>1. \A r \in Runs : /\ half(r) \subseteq {"half answered"}
                      /\ more(r) \subseteq tags
                      /\ \A c \in Calls : runOf[c] = r =>
                            /\ stage[c] = "answered" => "half answered" \in half(r)
                            /\ more(r) = tags
  BY DEF CallsOn
<1>2. irregular' = [r \in Runs |-> irregular[r] \cup half(r) \cup more(r)]
  BY DEF Gone
<1> HIDE DEF half, more
<1>3. /\ irregular' \in [Runs -> SUBSET Irregularities]
      /\ \A r \in Runs : irregular'[r] = irregular[r] \cup half(r) \cup more(r)
  BY <1>1, <1>2 DEF TypeOK
<1>4. /\ stage' = [c \in Calls |-> "idle"] /\ runOf' = [c \in Calls |-> None]
      /\ registry' = [r \in Runs |-> None] /\ phase' = "down"
      /\ awaited' = {} /\ toMark' = {} /\ UNCHANGED <<row, question>>
  BY DEF Gone
<1>5. TypeOK'
  BY <1>3, <1>4 DEF TypeOK
<1>6. /\ \A c \in Calls : stage'[c] = "idle" /\ runOf'[c] = None
      /\ \A r \in Runs : registry'[r] = None
  BY <1>4
<1>7. ASSUME NEW c \in Calls, NEW r \in Runs, runOf[c] = r
      PROVE  /\ stage[c] = "answered" => "half answered" \in irregular'[r]
             /\ tags \subseteq irregular'[r]
  <2>1. more(r) = tags /\ (stage[c] = "answered" => "half answered" \in half(r))
    BY <1>1, <1>7
  <2>2. irregular'[r] = irregular[r] \cup half(r) \cup more(r)
    BY <1>3
  <2>3. QED
    BY <2>1, <2>2
<1>8. \A r \in Runs : irregular[r] \subseteq irregular'[r]
  BY <1>3
<1>9. QED
  BY <1>5, <1>6, <1>7, <1>8

\* A tag is added to some runs and nothing is taken away.
LEMMA TaggedEffect ==
    ASSUME TypeOK, NEW R, NEW tag \in Irregularities
    PROVE  /\ Tagged(R, tag) \in [Runs -> SUBSET Irregularities]
           /\ \A r \in Runs : /\ irregular[r] \subseteq Tagged(R, tag)[r]
                              /\ Tagged(R, tag)[r] \subseteq irregular[r] \cup {tag}
                              /\ r \in R => tag \in Tagged(R, tag)[r]
<1>1. Tagged(R, tag) = [r \in Runs |-> irregular[r] \cup (IF r \in R THEN {tag} ELSE {})]
  BY DEF Tagged
<1>2. \A r \in Runs : Tagged(R, tag)[r] = irregular[r] \cup (IF r \in R THEN {tag} ELSE {})
  BY <1>1
<1>3. \A r \in Runs : irregular[r] \cup (IF r \in R THEN {tag} ELSE {}) \in SUBSET Irregularities
  BY DEF TypeOK
<1>4. QED
  BY <1>1, <1>2, <1>3

\* What marking one timed-out run changes.
LEMMA MarkTagged ==
    ASSUME TypeOK, NEW r \in Runs, MarkFailed(r)
    PROVE  /\ irregular' \in [Runs -> SUBSET Irregularities]
           /\ \A s \in Runs : irregular[s] \subseteq irregular'[s]
           /\ \A s \in Runs \ {r} : irregular'[s] = irregular[s]
           /\ "overruled" \in irregular'[r] \/ ("undriven" \in irregular'[r] /\ row' = row)
           /\ "undriven" \in irregular'[r]
              \/ \A c \in Calls : runOf[c] = r => stage[c] \notin Answering
           /\ "undriven" \in irregular'[r]
              \/ row' = [row EXCEPT ![r] = IF @ = "running" THEN "failed" ELSE @]
<1>1. CASE irregular' = Tagged({r}, "undriven") /\ UNCHANGED row
  <2>1. /\ \A s \in Runs : irregular'[s] = irregular[s] \cup (IF s = r THEN {"undriven"} ELSE {})
        /\ irregular' \in [Runs -> SUBSET Irregularities]
    BY <1>1, TaggedEffect DEF Tagged
  <2>2. QED
    BY <1>1, <2>1
<1>2. CASE irregular' # Tagged({r}, "undriven") \/ row' # row
  <2> DEFINE more == {"undriven" : c \in {d \in CallsOn(r) : stage[d] \in Answering}}
  <2>1. /\ more \subseteq {"undriven"}
        /\ "undriven" \in more \/ \A c \in Calls : runOf[c] = r => stage[c] \notin Answering
    BY DEF CallsOn
  <2>2. /\ irregular' = [irregular EXCEPT ![r] = @ \cup {"overruled"} \cup more]
        /\ row' = [row EXCEPT ![r] = IF @ = "running" THEN "failed" ELSE @]
    BY <1>2 DEF MarkFailed
  <2> HIDE DEF more
  <2>3. QED
    BY <2>1, <2>2 DEF TypeOK
<1>3. QED
  BY <1>1, <1>2

\* The step of a call that goes on: what it leaves alone, whichever step it is.
LEMMA GoesOnEffect ==
    ASSUME TypeOK, NEW c \in Calls, GoesOn(c)
    PROVE  /\ runOf[c] \in Runs /\ stage[c] # "idle" /\ stage'[c] # "idle"
           /\ stage' \in [Calls -> Stages]
           /\ \A d \in Calls \ {c} : stage'[d] = stage[d]
           /\ stage'[c] \in Starting => stage[c] \in Starting
           /\ UNCHANGED <<phase, runOf, registry, awaited, toMark>>
           /\ row' \in [Runs -> {"none", "running", "paused"} \cup Final]
           /\ question' \subseteq Runs
           /\ irregular' \in [Runs -> SUBSET Irregularities]
           /\ \A r \in Runs \ {runOf[c]} : /\ row'[r] = row[r] /\ irregular'[r] = irregular[r]
                                           /\ r \in question' <=> r \in question
           /\ irregular[runOf[c]] \subseteq irregular'[runOf[c]]
<1>1. \E from \in Stages \ {"idle"}, to \in Stages \ {"idle"} :
          Moves(c, from, to) /\ (to \in Starting => from \in Starting)
  <2>1. CASE InsertRun(c)
    BY <2>1 DEF InsertRun
  <2>2. CASE SelectRun(c)
    <3>1. Moves(c, "selecting", "selected")
      BY <2>2 DEF SelectRun
    <3>2. QED
      BY <3>1
  <2>3. CASE AnswerQuestion(c) \/ SetRunning(c) \/ LoadFlow(c) \/ NodeGone(c)
    BY <2>3 DEF AnswerQuestion, SetRunning, LoadFlow, NodeGone
  <2>4. CASE Ask(c) \/ PauseRun(c) \/ PauseFails(c) \/ FailRun(c) \/ CompleteRun(c)
    BY <2>4 DEF Ask, PauseRun, PauseFails, FailRun, CompleteRun
  <2>5. CASE NodeFails(c)
    BY <2>5 DEF NodeFails
  <2>6. QED
    BY <2>1, <2>2, <2>3, <2>4, <2>5 DEF GoesOn
<1>2. /\ runOf[c] \in Runs /\ stage[c] # "idle" /\ stage'[c] # "idle"
      /\ stage' \in [Calls -> Stages]
      /\ \A d \in Calls \ {c} : stage'[d] = stage[d]
      /\ stage'[c] \in Starting => stage[c] \in Starting
      /\ UNCHANGED <<phase, runOf, registry, awaited, toMark>>
  <2>1. PICK from \in Stages \ {"idle"}, to \in Stages \ {"idle"} :
            Moves(c, from, to) /\ (to \in Starting => from \in Starting)
    BY <1>1
  <2>2. QED
    BY <2>1, MovesEffect
<1>3. row' = row \/ \E st \in {"running", "paused"} \cup Final : row' = [row EXCEPT ![runOf[c]] = st]
  BY DEF GoesOn, InsertRun, SelectRun, AnswerQuestion, SetRunning, LoadFlow, NodeGone,
         Ask, PauseRun, NodeFails, PauseFails, FailRun, CompleteRun, SetRow
<1>4. question' = question \/ question' = question \ {runOf[c]} \/ question' = question \cup {runOf[c]}
  BY DEF GoesOn, InsertRun, SelectRun, AnswerQuestion, SetRunning, LoadFlow, NodeGone,
         Ask, PauseRun, NodeFails, PauseFails, FailRun, CompleteRun
<1>5. irregular' = irregular \/ \E tag \in Irregularities : irregular' = Tagged({runOf[c]}, tag)
  BY DEF GoesOn, InsertRun, SelectRun, AnswerQuestion, SetRunning, LoadFlow, NodeGone,
         Ask, PauseRun, NodeFails, PauseFails, FailRun, CompleteRun, Tag
<1>6. /\ irregular' \in [Runs -> SUBSET Irregularities]
      /\ \A r \in Runs \ {runOf[c]} : irregular'[r] = irregular[r]
      /\ irregular[runOf[c]] \subseteq irregular'[runOf[c]]
  <2>1. CASE irregular' = irregular
    BY <2>1 DEF TypeOK
  <2>2. ASSUME NEW tag \in Irregularities, irregular' = Tagged({runOf[c]}, tag)
        PROVE  /\ irregular' \in [Runs -> SUBSET Irregularities]
               /\ \A r \in Runs \ {runOf[c]} : irregular'[r] = irregular[r]
               /\ irregular[runOf[c]] \subseteq irregular'[runOf[c]]
    <3>1. /\ irregular' \in [Runs -> SUBSET Irregularities]
          /\ irregular[runOf[c]] \subseteq irregular'[runOf[c]]
      BY <1>2, <2>2, TaggedEffect
    <3>2. \A r \in Runs \ {runOf[c]} : irregular'[r] = irregular[r]
      BY <2>2 DEF Tagged, TypeOK
    <3>3. QED
      BY <3>1, <3>2
  <2>3. QED
    BY <1>5, <2>1, <2>2
<1>7. /\ row' \in [Runs -> {"none", "running", "paused"} \cup Final]
      /\ \A r \in Runs \ {runOf[c]} : row'[r] = row[r]
  <2>1. CASE row' = row
    BY <2>1 DEF TypeOK
  <2>2. ASSUME NEW st \in {"running", "paused"} \cup Final, row' = [row EXCEPT ![runOf[c]] = st]
        PROVE  /\ row' \in [Runs -> {"none", "running", "paused"} \cup Final]
               /\ \A r \in Runs \ {runOf[c]} : row'[r] = row[r]
    BY <1>2, <2>2 DEF TypeOK
  <2>3. QED
    BY <1>3, <2>1, <2>2
<1>8. /\ question' \subseteq Runs
      /\ \A r \in Runs \ {runOf[c]} : r \in question' <=> r \in question
  BY <1>2, <1>4 DEF TypeOK
<1>9. QED
  BY <1>2, <1>6, <1>7, <1>8

\* A new call: it has its run to itself, or answers it and is registered.
LEMMA BeginsEffect ==
    ASSUME TypeOK, NEW c \in Calls, NEW r \in Runs, Start(c, r) \/ Respond(c, r)
    PROVE  /\ stage[c] = "idle" /\ runOf[c] = None /\ runOf'[c] = r
           /\ stage' \in [Calls -> Stages] /\ runOf' \in [Calls -> Runs \cup {None}]
           /\ registry' \in [Runs -> Calls \cup {None}]
           /\ \A d \in Calls \ {c} : stage'[d] = stage[d] /\ runOf'[d] = runOf[d]
           /\ \A s \in Runs \ {r} : registry'[s] = registry[s]
           /\ \/ /\ Start(c, r) /\ stage'[c] = "checked"
                 /\ registry' = registry /\ \A d \in Calls : runOf[d] # r
              \/ /\ Respond(c, r) /\ stage'[c] = "selecting" /\ registry'[r] = c
                 /\ phase \in {"draining", "marking"} => "undriven" \in irregular'[r]
           /\ irregular' \in [Runs -> SUBSET Irregularities]
           /\ \A s \in Runs : irregular[s] \subseteq irregular'[s]
           /\ UNCHANGED <<phase, row, question, awaited, toMark>>
<1>1. /\ stage[c] = "idle" /\ runOf' = [runOf EXCEPT ![c] = r]
      /\ UNCHANGED <<phase, row, question, awaited, toMark>>
  BY DEF Start, Respond, gatewayVars
<1>2. runOf[c] = None
  BY <1>1 DEF TypeOK
<1>3. /\ runOf' \in [Calls -> Runs \cup {None}] /\ runOf'[c] = r
      /\ \A d \in Calls \ {c} : runOf'[d] = runOf[d]
  BY <1>1 DEF TypeOK
<1>4. CASE Start(c, r)
  <2>1. /\ stage' = [stage EXCEPT ![c] = "checked"] /\ registry' = registry
        /\ \A d \in Calls : runOf[d] # r
        /\ irregular' = irregular
    BY <1>4 DEF Start, CallsOn
  <2>2. QED
    BY <1>1, <1>2, <1>3, <1>4, <2>1 DEF TypeOK
<1>5. CASE Respond(c, r)
  <2>1. /\ stage' = [stage EXCEPT ![c] = "selecting"] /\ registry' = [registry EXCEPT ![r] = c]
        /\ irregular' = Tagged(IF ListTaken THEN {r} ELSE {}, "undriven")
    BY <1>5 DEF Respond
  <2>2. /\ irregular' \in [Runs -> SUBSET Irregularities]
        /\ \A s \in Runs : irregular[s] \subseteq irregular'[s]
        /\ ListTaken => "undriven" \in irregular'[r]
    BY <2>1, TaggedEffect
  <2>3. QED
    BY <1>1, <1>2, <1>3, <1>5, <2>1, <2>2 DEF TypeOK, ListTaken
<1>6. QED
  BY <1>4, <1>5

-------------------------------------------------------------------------------

\* No call is registered before it has launched its run.
Linked == \A r \in Runs : registry[r] # None => stage[registry[r]] \notin Starting

Sound == TypeOK /\ Linked

\* A call that ends leaves a well-formed state.
LEMMA EndsSound ==
    ASSUME Sound, NEW c \in Calls, NEW from \in Stages \ {"idle"},
           NEW tags \in SUBSET Irregularities, Ends(c, from, tags), UNCHANGED <<row, question>>
    PROVE  Sound'
<1>1. TypeOK /\ UNCHANGED <<phase, row, question, awaited, toMark>>
  BY DEF Ends, gatewayVars, Sound
<1>0. \A d \in Calls \ {c} : stage'[d] = stage[d] /\ runOf'[d] = runOf[d]
  BY <1>1, EndsEffect
<1>2. \A d \in Calls : stage'[d] = "idle" <=> runOf'[d] = None
  BY <1>1, EndsEffect DEF TypeOK
<1>3. ASSUME NEW r \in Runs, registry'[r] # None
      PROVE  runOf'[registry'[r]] = r /\ stage'[registry'[r]] \notin Starting
  <2>1. r # runOf[c] /\ registry'[r] = registry[r]
    BY <1>1, <1>3, EndsEffect
  <2>2. registry[r] \in Calls /\ runOf[registry[r]] = r /\ stage[registry[r]] \notin Starting
    BY <1>3, <2>1 DEF TypeOK, Sound, Linked
  <2>3. registry[r] \in Calls \ {c}
    BY <2>1, <2>2
  <2>4. runOf'[registry[r]] = runOf[registry[r]] /\ stage'[registry[r]] = stage[registry[r]]
    BY <1>0, <2>3
  <2>5. QED
    BY <2>1, <2>2, <2>4
<1>4. TypeOK'
  BY <1>1, <1>2, <1>3, EndsEffect DEF TypeOK
<1>5. QED
  BY <1>3, <1>4 DEF Sound, Linked

\* Every step keeps the state well formed and calls unregistered until launched.
LEMMA SoundStep == Sound /\ [Next]_vars => Sound'
<1> SUFFICES ASSUME Sound, [Next]_vars PROVE Sound'
  OBVIOUS
<1>0. TypeOK /\ Linked
  BY DEF Sound
<1>1. ASSUME NEW c \in Calls, NEW r \in Runs, Start(c, r) \/ Respond(c, r) PROVE Sound'
  <2> DEFINE Good(s) == registry'[s] # None =>
                 runOf'[registry'[s]] = s /\ stage'[registry'[s]] \notin Starting
  <2>0. /\ runOf[c] = None /\ runOf'[c] = r
        /\ \A d \in Calls \ {c} : stage'[d] = stage[d] /\ runOf'[d] = runOf[d]
    BY <1>0, <1>1, BeginsEffect
  <2>1. ASSUME NEW s \in Runs, registry'[s] = registry[s] PROVE Good(s)
    <3>1. SUFFICES ASSUME registry[s] # None
                   PROVE  runOf'[registry[s]] = s /\ stage'[registry[s]] \notin Starting
      BY <2>1
    <3>2. registry[s] \in Calls /\ runOf[registry[s]] = s /\ stage[registry[s]] \notin Starting
      BY <1>0, <3>1 DEF TypeOK, Linked
    <3>3. registry[s] # c
      BY <2>0, <3>2, NoneIsNoId
    <3>4. QED
      BY <2>0, <3>2, <3>3
  <2>2. registry' = registry \/ Good(r)
    BY <1>0, <1>1, <2>0, BeginsEffect
  <2>3. \A s \in Runs : Good(s)
    BY <1>0, <1>1, <2>1, <2>2, BeginsEffect
  <2>4. /\ stage' \in [Calls -> Stages] /\ runOf' \in [Calls -> Runs \cup {None}]
        /\ registry' \in [Runs -> Calls \cup {None}]
        /\ \A d \in Calls \ {c} : stage'[d] = stage[d] /\ runOf'[d] = runOf[d]
        /\ stage'[c] # "idle" /\ runOf'[c] = r
        /\ irregular' \in [Runs -> SUBSET Irregularities]
        /\ UNCHANGED <<phase, row, question, awaited, toMark>>
    BY <1>0, <1>1, BeginsEffect
  <2>5. ASSUME NEW d \in Calls PROVE stage'[d] = "idle" <=> runOf'[d] = None
    <3>1. CASE d = c
      BY <2>4, <3>1, NoneIsNoId
    <3>2. CASE d # c
      BY <1>0, <2>4, <3>2 DEF TypeOK
    <3>3. QED
      BY <3>1, <3>2
  <2>7. TypeOK'
    BY <1>0, <2>3, <2>4, <2>5 DEF TypeOK
  <2>6. QED
    BY <2>3, <2>7 DEF Sound, Linked
<1>2. ASSUME NEW c \in Calls, InsertFails(c) PROVE Sound'
  <2>1. /\ stage[c] = "checked" /\ stage' = [stage EXCEPT ![c] = "idle"]
        /\ runOf' = [runOf EXCEPT ![c] = None]
        /\ UNCHANGED <<phase, row, question, registry, awaited, toMark, irregular>>
    BY <1>2 DEF InsertFails, gatewayVars
  <2>2. \A r \in Runs : registry[r] # c
    BY <1>0, <2>1, NoneIsNoId DEF TypeOK, Linked
  <2>3. /\ stage' \in [Calls -> Stages] /\ runOf' \in [Calls -> Runs \cup {None}]
        /\ \A d \in Calls : stage'[d] = "idle" <=> runOf'[d] = None
    BY <1>0, <2>1 DEF TypeOK
  <2>4. \A r \in Runs : registry'[r] # None =>
            runOf'[registry'[r]] = r /\ stage'[registry'[r]] \notin Starting
    BY <1>0, <2>1, <2>2 DEF TypeOK, Linked
  <2>5. QED
    BY <1>0, <2>1, <2>3, <2>4 DEF TypeOK, Sound, Linked
<1>3. ASSUME NEW c \in Calls, Launch(c) PROVE Sound'
  <2>1. /\ stage[c] = "inserted" /\ stage' = [stage EXCEPT ![c] = "looping"]
        /\ registry' = [registry EXCEPT ![runOf[c]] = c]
        /\ UNCHANGED <<phase, row, question, runOf, awaited, toMark, irregular>>
    BY <1>3 DEF Launch, gatewayVars
  <2>2. runOf[c] \in Runs
    BY <1>0, <2>1 DEF TypeOK
  <2>3. /\ stage' \in [Calls -> Stages] /\ registry' \in [Runs -> Calls \cup {None}]
        /\ \A d \in Calls : stage'[d] = "idle" <=> runOf'[d] = None
    BY <1>0, <2>1, <2>2, NoneIsNoId DEF TypeOK
  <2>4. ASSUME NEW r \in Runs, registry'[r] # None
        PROVE  runOf'[registry'[r]] = r /\ stage'[registry'[r]] \notin Starting
    <3>1. CASE r = runOf[c]
      <4>1. registry'[r] = c /\ stage'[c] = "looping" /\ runOf' = runOf
        BY <1>0, <2>1, <2>2, <3>1 DEF TypeOK
      <4>2. QED
        BY <3>1, <4>1 DEF Starting
    <3>2. CASE r # runOf[c]
      <4>1. registry'[r] = registry[r] /\ runOf' = runOf
        BY <1>0, <2>1, <3>2 DEF TypeOK
      <4>2. registry[r] \in Calls /\ runOf[registry[r]] = r /\ stage[registry[r]] \notin Starting
        BY <1>0, <2>4, <4>1 DEF TypeOK, Linked
      <4>3. registry[r] # c
        BY <3>2, <4>2
      <4>4. stage'[registry[r]] = stage[registry[r]]
        BY <1>0, <2>1, <4>2, <4>3 DEF TypeOK
      <4>5. QED
        BY <4>1, <4>2, <4>4
    <3>3. QED
      BY <3>1, <3>2
  <2>5. QED
    BY <1>0, <2>1, <2>3, <2>4 DEF TypeOK, Sound, Linked
<1>4. ASSUME NEW c \in Calls, SelectFails(c) \/ AnswerFails(c) \/ Close(c) \/ Die(c)
      PROVE  Sound'
  <2>1. PICK from \in Stages \ {"idle"}, tags \in SUBSET Irregularities : Ends(c, from, tags)
    BY <1>4 DEF SelectFails, AnswerFails, Close, Die
  <2>2. UNCHANGED <<row, question>>
    BY <1>4 DEF SelectFails, AnswerFails, Close, Die
  <2>3. QED
    BY <2>1, <2>2, EndsSound
<1>5. ASSUME NEW c \in Calls, GoesOn(c) PROVE Sound'
  <2>1. \A d \in Calls : stage'[d] = "idle" <=> runOf'[d] = None
    BY <1>0, <1>5, GoesOnEffect, NoneIsNoId DEF TypeOK
  <2>2. ASSUME NEW s \in Runs, registry[s] # None
        PROVE  runOf[registry[s]] = s /\ stage'[registry[s]] \notin Starting
    <3>1. registry[s] \in Calls /\ runOf[registry[s]] = s /\ stage[registry[s]] \notin Starting
      BY <1>0, <2>2 DEF TypeOK, Linked
    <3>2. QED
      BY <1>0, <1>5, <3>1, GoesOnEffect
  <2>3. registry' = registry /\ runOf' = runOf
    BY <1>0, <1>5, GoesOnEffect
  <2>4. TypeOK'
    BY <1>0, <1>5, <2>1, <2>2, <2>3, GoesOnEffect DEF TypeOK
  <2>5. QED
    BY <2>2, <2>3, <2>4 DEF Sound, Linked
<1>6. ASSUME NEW c \in Calls, AskAside(c) PROVE Sound'
  <2>1. runOf[c] \in Runs
    BY <1>0, <1>6 DEF AskAside, TypeOK
  <2>2. QED
    BY <1>0, <1>6, <2>1 DEF AskAside, gatewayVars, TypeOK, Linked, Sound
<1>7. CASE Signal \/ CloseServer \/ Boot \/ UNCHANGED vars
  BY <1>0, <1>7 DEF Signal, CloseServer, Boot, vars, TypeOK, Linked, Sound
<1>8. CASE Drain
  <2>1. irregular' \in [Runs -> SUBSET Irregularities]
    BY <1>0, <1>8, TaggedEffect DEF Drain
  <2>2. awaited' \subseteq Calls
    <3>1. \A r \in Registered : registry[r] \in Calls
      BY <1>0 DEF Registered, TypeOK
    <3>2. QED
      BY <1>8, <3>1 DEF Drain
  <2>3. QED
    BY <1>0, <1>8, <2>1, <2>2 DEF Drain, TypeOK, Linked, Sound, Phases
<1>9. CASE Drained
  BY <1>0, <1>9 DEF Drained, TimedOut, Registered, TypeOK, Linked, Sound
<1>10. ASSUME NEW r \in Runs, MarkFailed(r) PROVE Sound'
  <2>1. irregular' \in [Runs -> SUBSET Irregularities]
    BY <1>0, <1>10, MarkTagged
  <2>2. row' \in [Runs -> {"none", "running", "paused"} \cup Final] /\ toMark' \subseteq Runs
    BY <1>0, <1>10 DEF MarkFailed, TypeOK
  <2>3. QED
    BY <1>0, <1>10, <2>1, <2>2 DEF MarkFailed, TypeOK, Linked, Sound
<1>11. CASE Exit \/ Crash
  <2>1. PICK tags \in SUBSET Irregularities : Gone(tags)
    BY <1>11 DEF Exit, Crash
  <2>2. TypeOK' /\ \A r \in Runs : registry'[r] = None
    BY <1>0, <2>1, GoneEffect
  <2>3. QED
    BY <2>2 DEF Sound, Linked
<1>12. QED
  BY <1>1, <1>2, <1>3, <1>4, <1>5, <1>6, <1>7, <1>8, <1>9, <1>10, <1>11 DEF Next, GoesOn

-------------------------------------------------------------------------------
(* One call works on a run.                                                  *)

\* A step of c from one stage to another, with what its run is like afterwards.
Step(c, from, to, status, asked) ==
    /\ stage[c] = from /\ stage'[c] = to
    /\ row'[runOf[c]] = status
    /\ runOf[c] \in question' <=> asked

\* The ways a call can go on.
LEMMA GoesOnTable ==
    ASSUME TypeOK, NEW c \in Calls, GoesOn(c)
    PROVE  LET r == runOf[c]  same == row[r]  asked == r \in question
           IN  \/ Step(c, "checked", "inserted", "running", asked)
               \/ /\ Step(c, "selecting", "selected", same, asked)
                  /\ row[r] = "paused"
                  /\ \/ "answered twice" \in irregular'[r]
                     \/ \A d \in Calls : runOf[d] = r => stage[d] \notin {"selected", "answered"}
               \/ Step(c, "selected", "answered", same, FALSE)
               \/ Step(c, "answered", "loading", "running", asked)
               \/ Step(c, "loading", "looping", same, asked)
               \/ Step(c, "loading", "failing", same, asked)
               \/ Step(c, "looping", "asking", same, TRUE)
               \/ Step(c, "asking", "pausing", "paused", asked)
               \/ Step(c, "looping", "failing", same, asked)
               \/ Step(c, "asking", "failing", same, asked)
               \/ Step(c, "pausing", "failing", same, asked) /\ "overruled" \in irregular'[r]
               \/ Step(c, "failing", "closing", "failed", asked)
               \/ Step(c, "looping", "closing", "completed", asked)
<1>1. runOf[c] \in Runs
  BY GoesOnEffect
<1> USE <1>1 DEF TypeOK, Step, Moves
<1>2. CASE InsertRun(c)
  BY <1>2 DEF InsertRun, SetRow
<1>3. CASE SelectRun(c)
  <2>1. /\ Step(c, "selecting", "selected", row[runOf[c]], runOf[c] \in question)
        /\ row[runOf[c]] = "paused"
    BY <1>3 DEF SelectRun, Resumable
  <2>2. CASE \E d \in CallsOn(runOf[c]) : stage[d] \in {"selected", "answered"}
    <3>1. irregular' = Tagged({runOf[c]}, "answered twice")
      BY <1>3, <2>2 DEF SelectRun, Tag
    <3>2. QED
      BY <2>1, <3>1, TaggedEffect
  <2>3. CASE ~ \E d \in CallsOn(runOf[c]) : stage[d] \in {"selected", "answered"}
    BY <2>1, <2>3 DEF CallsOn
  <2>4. QED
    BY <2>2, <2>3
<1>4. CASE AnswerQuestion(c)
  BY <1>4 DEF AnswerQuestion
<1>5. CASE SetRunning(c)
  BY <1>5 DEF SetRunning, SetRow
<1>6. CASE LoadFlow(c)
  BY <1>6 DEF LoadFlow
<1>7. CASE NodeGone(c)
  BY <1>7 DEF NodeGone
<1>8. CASE Ask(c)
  BY <1>8 DEF Ask
<1>9. CASE PauseRun(c)
  BY <1>9 DEF PauseRun, SetRow
<1>10. CASE NodeFails(c)
  BY <1>10 DEF NodeFails
<1>11. CASE PauseFails(c)
  <2>1. irregular' = Tagged({runOf[c]}, "overruled")
    BY <1>11 DEF PauseFails, Tag
  <2>2. "overruled" \in irregular'[runOf[c]]
    BY <2>1, TaggedEffect
  <2>3. QED
    BY <1>11, <2>2 DEF PauseFails
<1>12. CASE FailRun(c)
  BY <1>12 DEF FailRun, SetRow
<1>13. CASE CompleteRun(c)
  BY <1>13 DEF CompleteRun, SetRow
<1>14. QED
  BY <1>2, <1>3, <1>4, <1>5, <1>6, <1>7, <1>8, <1>9, <1>10, <1>11, <1>12, <1>13 DEF GoesOn

\* A call that gives up before its INSERT, and one that launches its run.
LEMMA StartingEffect ==
    ASSUME TypeOK, NEW c \in Calls, InsertFails(c) \/ Launch(c)
    PROVE  /\ runOf[c] \in Runs
           /\ \A d \in Calls \ {c} : stage'[d] = stage[d] /\ runOf'[d] = runOf[d]
           /\ \/ /\ InsertFails(c) /\ stage[c] = "checked" /\ stage'[c] = "idle"
                 /\ runOf'[c] = None /\ registry' = registry
              \/ /\ Launch(c) /\ stage[c] = "inserted" /\ stage'[c] = "looping"
                 /\ runOf'[c] = runOf[c] /\ registry'[runOf[c]] = c
                 /\ \A r \in Runs \ {runOf[c]} : registry'[r] = registry[r]
           /\ UNCHANGED <<phase, row, question, awaited, toMark, irregular>>
<1>1. stage[c] # "idle" /\ UNCHANGED <<phase, row, question, awaited, toMark, irregular>>
  BY DEF InsertFails, Launch, gatewayVars
<1>2. runOf[c] \in Runs
  BY <1>1 DEF TypeOK
<1>3. CASE InsertFails(c)
  BY <1>1, <1>2, <1>3 DEF InsertFails, TypeOK
<1>4. CASE Launch(c)
  BY <1>1, <1>2, <1>4 DEF Launch, TypeOK
<1>5. QED
  BY <1>3, <1>4

\* A call that comes to its end.
LEMMA LeavesEffect ==
    ASSUME TypeOK, NEW c \in Calls, Leaves(c)
    PROVE  /\ runOf[c] \in Runs /\ stage'[c] = "idle" /\ runOf'[c] = None
           /\ stage[c] \in Answering \cup {"loading", "looping", "pausing", "failing", "closing"}
           /\ \A d \in Calls \ {c} : stage'[d] = stage[d] /\ runOf'[d] = runOf[d]
           /\ registry'[runOf[c]] = None
           /\ \A r \in Runs \ {runOf[c]} : registry'[r] = registry[r] /\ irregular'[r] = irregular[r]
           /\ irregular[runOf[c]] \subseteq irregular'[runOf[c]]
           /\ stage[c] = "answered" => "half answered" \in irregular'[runOf[c]]
           /\ stage[c] \in {"loading", "looping", "failing"} => "undriven" \in irregular'[runOf[c]]
           /\ \A d \in Calls \ {c} : runOf[d] = runOf[c] => "undriven" \in irregular'[runOf[c]]
           /\ UNCHANGED <<phase, row, question, awaited, toMark>>
<1> DEFINE Left == Answering \cup {"loading", "looping", "pausing", "failing", "closing"}
           Way(from, tags) == /\ Ends(c, from, tags)
                              /\ from = "answered" => "half answered" \in tags
                              /\ from \in {"loading", "looping", "failing"} => "undriven" \in tags
<1>1. PICK from \in Left, tags \in SUBSET Irregularities : Way(from, tags)
  <2>1. {} \in SUBSET Irregularities /\ {"half answered"} \in SUBSET Irregularities
        /\ {"undriven"} \in SUBSET Irregularities
    OBVIOUS
  <2>2. CASE SelectFails(c)
    <3>1. Way("selecting", {})
      BY <2>2 DEF SelectFails
    <3>2. QED
      BY <2>1, <3>1
  <2>3. CASE AnswerFails(c)
    <3>1. Way("selected", {}) \/ Way("answered", {"half answered"})
      BY <2>3 DEF AnswerFails
    <3>2. QED
      BY <2>1, <3>1
  <2>4. CASE Close(c)
    <3>1. Way("pausing", {}) \/ Way("closing", {})
      BY <2>4 DEF Close
    <3>2. QED
      BY <2>1, <3>1
  <2>5. CASE Die(c)
    <3>1. Way("loading", {"undriven"}) \/ Way("looping", {"undriven"}) \/ Way("failing", {"undriven"})
      BY <2>5 DEF Die
    <3>2. QED
      BY <2>1, <3>1
  <2>6. QED
    BY <2>2, <2>3, <2>4, <2>5 DEF Leaves
<1>2. from \in Stages \ {"idle"} /\ stage[c] = from
  BY <1>1 DEF Ends
<1>3. UNCHANGED <<phase, row, question, awaited, toMark>>
  BY <1>1 DEF Leaves, SelectFails, AnswerFails, Close, Die, Ends, gatewayVars
<1>4. /\ runOf[c] \in Runs /\ stage'[c] = "idle" /\ runOf'[c] = None
      /\ \A d \in Calls \ {c} : stage'[d] = stage[d] /\ runOf'[d] = runOf[d]
      /\ registry'[runOf[c]] = None
      /\ \A r \in Runs \ {runOf[c]} : registry'[r] = registry[r] /\ irregular'[r] = irregular[r]
      /\ irregular[runOf[c]] \subseteq irregular'[runOf[c]] /\ tags \subseteq irregular'[runOf[c]]
      /\ \A d \in Calls \ {c} : runOf[d] = runOf[c] => "undriven" \in irregular'[runOf[c]]
  BY <1>1, <1>2, EndsEffect
<1>5. QED
  BY <1>1, <1>2, <1>3, <1>4

\* The steps of the gateway that leave the calls alone.
Outside == Signal \/ CloseServer \/ Drain \/ Drained \/ Boot \/ \E r \in Runs : MarkFailed(r)

\* They change no call, and a row only from running to failed, which overrules it.
LEMMA OutsideEffect ==
    ASSUME TypeOK, Outside
    PROVE  /\ UNCHANGED <<question, stage, runOf, registry>>
           /\ \A r \in Runs : /\ irregular[r] \subseteq irregular'[r]
                              /\ \/ row'[r] = row[r]
                                 \/ /\ row[r] = "running" /\ row'[r] = "failed"
                                    /\ "overruled" \in irregular'[r]
<1>1. CASE Signal \/ CloseServer \/ Drained \/ Boot
  BY <1>1 DEF Signal, CloseServer, Drained, Boot
<1>2. CASE Drain
  <2>1. UNCHANGED <<row, question, stage, runOf, registry>>
    BY <1>2 DEF Drain
  <2>2. PICK R : irregular' = Tagged(R, "undriven")
    BY <1>2 DEF Drain
  <2>3. QED
    BY <2>1, <2>2, TaggedEffect
<1>3. ASSUME NEW s \in Runs, MarkFailed(s)
      PROVE  /\ UNCHANGED <<question, stage, runOf, registry>>
             /\ \A r \in Runs : /\ irregular[r] \subseteq irregular'[r]
                                /\ \/ row'[r] = row[r]
                                   \/ /\ row[r] = "running" /\ row'[r] = "failed"
                                      /\ "overruled" \in irregular'[r]
  <2>1. /\ UNCHANGED <<question, stage, runOf, registry>>
        /\ row' = row \/ row' = [row EXCEPT ![s] = IF @ = "running" THEN "failed" ELSE @]
    BY <1>3 DEF MarkFailed
  <2>2. \A r \in Runs : row'[r] = row[r] \/ (r = s /\ row[r] = "running" /\ row'[r] = "failed")
    BY <2>1 DEF TypeOK
  <2>3. "overruled" \in irregular'[s] \/ row' = row
    BY <1>3, MarkTagged
  <2>4. \A r \in Runs : irregular[r] \subseteq irregular'[r]
    BY <1>3, MarkTagged
  <2>5. QED
    BY <2>1, <2>2, <2>3, <2>4
<1>4. QED
  BY <1>1, <1>2, <1>3 DEF Outside

\* Nothing that excuses a run is forgotten.
LEMMA IrregularGrows ==
    ASSUME Sound, [Next]_vars, NEW r \in Runs
    PROVE  irregular[r] \subseteq irregular'[r]
<1>0. TypeOK
  BY DEF Sound
<1>1. ASSUME NEW c \in Calls, GoesOn(c) PROVE irregular[r] \subseteq irregular'[r]
  <2>1. CASE r = runOf[c]
    BY <1>0, <1>1, <2>1, GoesOnEffect
  <2>2. CASE r # runOf[c]
    <3>1. irregular'[r] = irregular[r]
      BY <1>0, <1>1, <2>2, GoesOnEffect
    <3>2. QED
      BY <3>1
  <2>3. QED
    BY <2>1, <2>2
<1>2. ASSUME NEW c \in Calls, NEW s \in Runs, Start(c, s) \/ Respond(c, s)
      PROVE  irregular[r] \subseteq irregular'[r]
  BY <1>0, <1>2, BeginsEffect
<1>3. ASSUME NEW c \in Calls, InsertFails(c) \/ Launch(c) \/ AskAside(c)
      PROVE  irregular' = irregular
  BY <1>3 DEF InsertFails, Launch, AskAside
<1>4. ASSUME NEW c \in Calls, Leaves(c) PROVE irregular[r] \subseteq irregular'[r]
  <2>1. CASE r = runOf[c]
    BY <1>0, <1>4, <2>1, LeavesEffect
  <2>2. CASE r # runOf[c]
    BY <1>0, <1>4, <2>2, LeavesEffect
  <2>3. QED
    BY <2>1, <2>2
<1>5. CASE Outside
  BY <1>0, <1>5, OutsideEffect
<1>6. CASE Exit \/ Crash
  BY <1>0, <1>6, GoneEffect DEF Exit, Crash
<1>7. CASE UNCHANGED vars
  BY <1>7 DEF vars
<1>8. QED
  BY <1>1, <1>2, <1>3, <1>4, <1>5, <1>6, <1>7 DEF Next, GoesOn, Outside, Leaves

\* Unless it was answered twice, a run has one busy call, is not paused while that
\* call starts or drives it, and has an open question when the call is about to
\* pause it.
SoloAt(r) ==
    /\ \A c, d \in Calls : runOf[c] = r /\ runOf[d] = r /\ stage[c] \in Busy /\ stage[d] \in Busy
                            => c = d
    /\ \A c \in Calls : runOf[c] = r /\ stage[c] \in Starting \cup Driving => row[r] # "paused"
    /\ \A c \in Calls : runOf[c] = r /\ stage[c] = "asking" => r \in question

Solo == \A r \in Runs : "answered twice" \in irregular[r] \/ SoloAt(r)

\* A step that leaves the calls of a run and its row alone.
LEMMA SoloElsewhere ==
    ASSUME NEW r \in Runs, SoloAt(r), row'[r] # "paused" \/ row'[r] = row[r],
           r \in question => r \in question',
           \A d \in Calls : runOf'[d] = r => runOf[d] = r /\ stage'[d] = stage[d]
    PROVE  SoloAt(r)'
<1>1. \A d \in Calls : runOf'[d] = r => runOf[d] = r /\ stage'[d] = stage[d]
  OBVIOUS
<1>2. \A c, d \in Calls : runOf'[c] = r /\ runOf'[d] = r /\ stage'[c] \in Busy /\ stage'[d] \in Busy
                            => c = d
  BY <1>1 DEF SoloAt
<1>3. \A c \in Calls : runOf'[c] = r /\ stage'[c] \in Starting \cup Driving => row'[r] # "paused"
  BY <1>1 DEF SoloAt
<1>4. \A c \in Calls : runOf'[c] = r /\ stage'[c] = "asking" => r \in question'
  BY <1>1 DEF SoloAt
<1>5. QED
  BY <1>2, <1>3, <1>4 DEF SoloAt

\* No step gives a run a second busy call.
LEMMA SoloStep == Sound /\ Solo /\ [Next]_vars => Solo'
<1> SUFFICES ASSUME Sound, Solo, [Next]_vars, NEW r \in Runs, "answered twice" \notin irregular'[r]
             PROVE  SoloAt(r)'
  BY DEF Solo
<1>0. TypeOK /\ SoloAt(r)
  BY IrregularGrows DEF Sound, Solo
<1>1. ASSUME NEW c \in Calls, GoesOn(c) PROVE SoloAt(r)'
  <2>1. CASE runOf[c] # r
    <3>1. /\ row'[r] = row[r] /\ (r \in question' <=> r \in question)
          /\ runOf' = runOf /\ \A d \in Calls : runOf[d] = r => stage'[d] = stage[d]
      <4>1. runOf' = runOf /\ \A d \in Calls \ {c} : stage'[d] = stage[d]
        BY <1>0, <1>1, GoesOnEffect
      <4>2. row'[r] = row[r] /\ (r \in question' <=> r \in question)
        BY <1>0, <1>1, <2>1, GoesOnEffect
      <4>3. QED
        BY <2>1, <4>1, <4>2
    <3>2. QED
      BY <1>0, <3>1, SoloElsewhere
  <2>2. CASE runOf[c] = r
    <3>1. runOf' = runOf /\ \A d \in Calls \ {c} : stage'[d] = stage[d]
      BY <1>0, <1>1, GoesOnEffect
    <3>2. stage'[c] \in Busy =>
              stage[c] \in Busy \/ \A d \in Calls : runOf[d] = r => stage[d] \notin Busy
      BY <1>0, <1>1, <2>2, GoesOnTable DEF Step, SoloAt
    <3>3. \A a, b \in Calls : runOf[a] = r /\ runOf[b] = r /\ stage'[a] \in Busy /\ stage'[b] \in Busy
                             => a = b
      BY <1>0, <2>2, <3>1, <3>2 DEF SoloAt
    <3>4. ASSUME NEW d \in Calls, runOf[d] = r, stage'[d] \in Starting \cup Driving
          PROVE  row'[r] # "paused"
      <4>1. CASE d = c
        BY <1>0, <1>1, <2>2, <3>4, <4>1, GoesOnTable DEF Step, SoloAt
      <4>2. CASE d # c
        <5>1. stage[d] \in Busy /\ row[r] # "paused" /\ stage[c] \notin Busy
          BY <1>0, <2>2, <3>1, <3>4, <4>2 DEF SoloAt
        <5>2. QED
          BY <1>0, <1>1, <2>2, <5>1, GoesOnTable DEF Step
      <4>3. QED
        BY <4>1, <4>2
    <3>5. ASSUME NEW d \in Calls, runOf[d] = r, stage'[d] = "asking" PROVE r \in question'
      <4>1. CASE d = c
        BY <1>0, <1>1, <2>2, <3>5, <4>1, GoesOnTable DEF Step
      <4>2. CASE d # c
        <5>1. stage[d] \in Busy /\ r \in question /\ stage[c] \notin Busy
          BY <1>0, <2>2, <3>1, <3>5, <4>2 DEF SoloAt
        <5>2. QED
          BY <1>0, <1>1, <2>2, <5>1, GoesOnTable DEF Step
      <4>3. QED
        BY <4>1, <4>2
    <3>6. QED
      BY <3>1, <3>3, <3>4, <3>5 DEF SoloAt
  <2>3. QED
    BY <2>1, <2>2
<1>2. ASSUME NEW c \in Calls, NEW s \in Runs, Start(c, s) \/ Respond(c, s) PROVE SoloAt(r)'
  <2>0. /\ UNCHANGED <<row, question>> /\ runOf'[c] = s
        /\ \A d \in Calls \ {c} : stage'[d] = stage[d] /\ runOf'[d] = runOf[d]
    BY <1>0, <1>2, BeginsEffect
  <2>1. CASE s = r /\ Start(c, s)
    <3>1. \A d \in Calls : runOf'[d] = runOf[d] \/ d = c
      BY <2>0
    <3>2. row[r] = "none" /\ row' = row /\ \A d \in Calls : runOf[d] # r
      BY <2>1 DEF Start, CallsOn
    <3>3. stage'[c] = "checked"
      BY <1>0, <2>1 DEF Start, TypeOK
    <3>4. QED
      BY <3>1, <3>2, <3>3 DEF SoloAt
  <2>2. CASE s # r
    <3>1. UNCHANGED <<row, question>>
          /\ \A d \in Calls : runOf'[d] = r => runOf[d] = r /\ stage'[d] = stage[d]
      BY <2>0, <2>2
    <3>2. QED
      BY <1>0, <3>1, SoloElsewhere
  <2>3. CASE Respond(c, s)
    <3>2. stage'[c] = "selecting"
      BY <1>0, <2>3 DEF Respond, TypeOK
    <3>3. QED
      BY <1>0, <2>0, <3>2 DEF SoloAt
  <2>4. QED
    BY <1>2, <2>1, <2>2, <2>3
<1>3. ASSUME NEW c \in Calls, InsertFails(c) \/ Launch(c) PROVE SoloAt(r)'
  <2>1. UNCHANGED <<row, question>>
    BY <1>0, <1>3, StartingEffect
  <2>2. \A d \in Calls : runOf'[d] = r =>
            /\ runOf[d] = r
            /\ stage'[d] = stage[d] \/ (stage[d] = "inserted" /\ stage'[d] = "looping")
    BY <1>0, <1>3, StartingEffect, NoneIsNoId
  <2>3. QED
    BY <1>0, <2>1, <2>2 DEF SoloAt
<1>4. ASSUME NEW c \in Calls, Leaves(c) PROVE SoloAt(r)'
  <2>1. UNCHANGED <<row, question>>
        /\ \A d \in Calls : runOf'[d] = r => runOf[d] = r /\ stage'[d] = stage[d]
    BY <1>0, <1>4, LeavesEffect, NoneIsNoId
  <2>2. QED
    BY <1>0, <2>1, SoloElsewhere
<1>5. ASSUME NEW c \in Calls, AskAside(c) PROVE SoloAt(r)'
  <2>1. UNCHANGED <<row, stage, runOf>> /\ question \subseteq question'
    BY <1>5 DEF AskAside
  <2>2. QED
    BY <1>0, <2>1, SoloElsewhere
<1>6. CASE Outside
  BY <1>0, <1>6, OutsideEffect, SoloElsewhere
<1>7. CASE Exit \/ Crash
  <2>1. \A c \in Calls : runOf'[c] = None
    BY <1>0, <1>7, GoneEffect DEF Exit, Crash
  <2>2. QED
    BY <2>1, NoneIsNoId DEF SoloAt
<1>8. CASE UNCHANGED vars
  BY <1>0, <1>8 DEF vars, SoloAt
<1>9. QED
  BY <1>1, <1>2, <1>3, <1>4, <1>5, <1>6, <1>7, <1>8 DEF Next, GoesOn, Outside, Leaves

-------------------------------------------------------------------------------
(* Final runs.                                                               *)

Active == Busy \cup {"failing"}

\* Unless it was overruled, a run has one call that will still write its row, is not
\* paused while that call makes it fail, and has no such call once it is final.
SettledAt(r) ==
    /\ \A c, d \in Calls : runOf[c] = r /\ runOf[d] = r /\ stage[c] \in Active /\ stage[d] \in Active
                            => c = d
    /\ \A c \in Calls : runOf[c] = r /\ stage[c] = "failing" => row[r] # "paused"
    /\ row[r] \in Final => \A c \in Calls : runOf[c] = r => stage[c] \notin Active

Settled == \A r \in Runs :
    irregular[r] \cap {"answered twice", "overruled"} # {} \/ SettledAt(r)

\* A step that leaves the calls of a run and its row alone.
LEMMA SettledElsewhere ==
    ASSUME NEW r \in Runs, SettledAt(r), row'[r] = row[r],
           \A d \in Calls : runOf'[d] = r => runOf[d] = r /\ stage'[d] = stage[d]
    PROVE  SettledAt(r)'
BY DEF SettledAt

\* No step leaves a call that will write the row of a final run.
LEMMA SettledStep == Sound /\ Solo /\ Settled /\ [Next]_vars => Settled'
<1> SUFFICES ASSUME Sound, Solo, Settled, [Next]_vars, NEW r \in Runs,
                    "answered twice" \notin irregular'[r], "overruled" \notin irregular'[r]
             PROVE  SettledAt(r)'
  BY DEF Settled
<1>0. TypeOK /\ SoloAt(r) /\ SettledAt(r)
  BY IrregularGrows DEF Sound, Solo, Settled
<1> USE DEF Active
<1>1. ASSUME NEW c \in Calls, GoesOn(c) PROVE SettledAt(r)'
  <2>1. CASE runOf[c] # r
    <3>1. row'[r] = row[r] /\ runOf' = runOf /\ \A d \in Calls : runOf[d] = r => stage'[d] = stage[d]
      <4>1. runOf' = runOf /\ \A d \in Calls \ {c} : stage'[d] = stage[d]
        BY <1>0, <1>1, GoesOnEffect
      <4>2. row'[r] = row[r]
        BY <1>0, <1>1, <2>1, GoesOnEffect
      <4>3. QED
        BY <2>1, <4>1, <4>2
    <3>2. QED
      BY <1>0, <3>1, SettledElsewhere
  <2>2. CASE runOf[c] = r
    <3>1. runOf' = runOf /\ \A d \in Calls \ {c} : stage'[d] = stage[d]
      BY <1>0, <1>1, GoesOnEffect
    <3>2. stage'[c] \in Active =>
              stage[c] \in Active \/ \A d \in Calls : runOf[d] = r => stage[d] \notin Active
      BY <1>0, <1>1, <2>2, GoesOnTable DEF Step, SoloAt, SettledAt
    <3>3. \A a, b \in Calls : runOf[a] = r /\ runOf[b] = r /\ stage'[a] \in Active /\ stage'[b] \in Active
                             => a = b
      BY <1>0, <2>2, <3>1, <3>2 DEF SettledAt
    <3>4. ASSUME NEW d \in Calls, runOf[d] = r, stage'[d] = "failing" PROVE row'[r] # "paused"
      <4>1. CASE d = c
        BY <1>0, <1>1, <2>2, <3>4, <4>1, GoesOnTable DEF Step, SoloAt
      <4>2. CASE d # c
        <5>1. stage[d] \in Active /\ row[r] # "paused" /\ stage[c] \notin Active
          BY <1>0, <2>2, <3>1, <3>4, <4>2 DEF SettledAt
        <5>2. QED
          BY <1>0, <1>1, <2>2, <5>1, GoesOnTable DEF Step
      <4>3. QED
        BY <4>1, <4>2
    <3>5. ASSUME row'[r] \in Final, NEW d \in Calls, runOf[d] = r, stage'[d] \in Active PROVE FALSE
      <4>1. CASE row[r] \in Final
        <5>1. \A e \in Calls : runOf[e] = r => stage[e] \notin Active
          BY <1>0, <4>1 DEF SettledAt
        <5>2. d = c
          BY <3>1, <3>5, <5>1
        <5>3. QED
          BY <1>0, <1>1, <2>2, <3>5, <4>1, <5>1, <5>2, GoesOnTable DEF Step
      <4>2. CASE row[r] \notin Final
        <5>1. stage[c] \in Active /\ stage'[c] \notin Active
          BY <1>0, <1>1, <2>2, <3>5, <4>2, GoesOnTable DEF Step
        <5>2. d # c /\ stage[d] \in Active
          BY <3>1, <3>5, <5>1
        <5>3. QED
          BY <1>0, <2>2, <3>5, <5>1, <5>2 DEF SettledAt
      <4>3. QED
        BY <4>1, <4>2
    <3>6. QED
      BY <3>1, <3>3, <3>4, <3>5 DEF SettledAt
  <2>3. QED
    BY <2>1, <2>2
<1>2. ASSUME NEW c \in Calls, NEW s \in Runs, Start(c, s) \/ Respond(c, s) PROVE SettledAt(r)'
  <2>0. /\ row' = row /\ runOf'[c] = s
        /\ \A d \in Calls \ {c} : stage'[d] = stage[d] /\ runOf'[d] = runOf[d]
    BY <1>0, <1>2, BeginsEffect
  <2>1. CASE s = r /\ Start(c, s)
    <3>1. row[r] = "none" /\ \A d \in Calls : runOf[d] # r
      BY <2>1 DEF Start, CallsOn
    <3>2. stage'[c] = "checked"
      BY <1>0, <2>1 DEF Start, TypeOK
    <3>3. QED
      BY <2>0, <3>1, <3>2 DEF SettledAt
  <2>2. CASE s # r
    <3>1. \A d \in Calls : runOf'[d] = r => runOf[d] = r /\ stage'[d] = stage[d]
      BY <2>0, <2>2
    <3>2. QED
      BY <1>0, <2>0, <3>1, SettledElsewhere
  <2>3. CASE Respond(c, s)
    <3>1. stage'[c] = "selecting"
      BY <1>0, <2>3 DEF Respond, TypeOK
    <3>2. QED
      BY <1>0, <2>0, <3>1 DEF SettledAt
  <2>4. QED
    BY <1>2, <2>1, <2>2, <2>3
<1>3. ASSUME NEW c \in Calls, InsertFails(c) \/ Launch(c) PROVE SettledAt(r)'
  <2>1. row' = row
    BY <1>0, <1>3, StartingEffect
  <2>2. \A d \in Calls : runOf'[d] = r =>
            /\ runOf[d] = r
            /\ stage'[d] = stage[d] \/ (stage[d] = "inserted" /\ stage'[d] = "looping")
    BY <1>0, <1>3, StartingEffect, NoneIsNoId
  <2>3. QED
    BY <1>0, <2>1, <2>2 DEF SettledAt
<1>4. ASSUME NEW c \in Calls, Leaves(c) PROVE SettledAt(r)'
  <2>1. /\ row' = row
        /\ \A d \in Calls : runOf'[d] = r => runOf[d] = r /\ stage'[d] = stage[d]
    BY <1>0, <1>4, LeavesEffect, NoneIsNoId
  <2>2. QED
    BY <1>0, <2>1, SettledElsewhere
<1>5. ASSUME NEW c \in Calls, AskAside(c) PROVE SettledAt(r)'
  BY <1>0, <1>5, SettledElsewhere DEF AskAside
<1>6. CASE Outside
  BY <1>0, <1>6, OutsideEffect, SettledElsewhere
<1>7. CASE Exit \/ Crash
  <2>1. \A c \in Calls : runOf'[c] = None
    BY <1>0, <1>7, GoneEffect DEF Exit, Crash
  <2>2. QED
    BY <2>1, NoneIsNoId DEF SettledAt
<1>8. CASE UNCHANGED vars
  BY <1>0, <1>8 DEF vars, SettledAt
<1>9. QED
  BY <1>1, <1>2, <1>3, <1>4, <1>5, <1>6, <1>7, <1>8 DEF Next, GoesOn, Outside, Leaves

-------------------------------------------------------------------------------
(* Running runs.                                                             *)

\* Unless it is undriven, a run with a launched call is registered; from the drain on
\* it has no call that is yet to be launched; the drain waits for its call; and when
\* it is not on the list to be marked, it does not run and nobody answers it.
KnownAt(r) ==
    /\ (\E c \in Calls : runOf[c] = r /\ stage[c] \notin Starting) => registry[r] # None
    /\ phase \in {"draining", "marking"} => \A c \in Calls : runOf[c] = r => stage[c] \notin Starting
    /\ phase = "draining" => registry[r] \in awaited \cup {None}
    /\ phase = "marking" /\ r \notin toMark =>
           /\ row[r] # "running"
           /\ \A c \in Calls : runOf[c] = r => stage[c] \notin Answering

Working == Driving \cup {"inserted", "failing"}

\* ... and when its row says so, a call is working on it.
WorkedOnAt(r) == row[r] = "running" => \E c \in Calls : runOf[c] = r /\ stage[c] \in Working

Known == \A r \in Runs : "undriven" \in irregular[r] \/ (KnownAt(r) /\ WorkedOnAt(r))

\* The steps of shutdown keep what is known of a run, or find it undriven.
LEMMA KnownOutside ==
    ASSUME Sound, NEW r \in Runs, KnownAt(r), WorkedOnAt(r), Outside,
           "undriven" \notin irregular'[r]
    PROVE  KnownAt(r)' /\ WorkedOnAt(r)'
<1>0. TypeOK /\ UNCHANGED <<stage, runOf, registry>>
  BY OutsideEffect DEF Sound
<1>1. WorkedOnAt(r)'
  BY <1>0, OutsideEffect DEF WorkedOnAt
<1>2. CASE Signal \/ CloseServer \/ Boot
  <2>1. phase' \notin {"draining", "marking"}
    BY <1>2 DEF Signal, CloseServer, Boot
  <2>2. QED
    BY <1>0, <1>1, <2>1 DEF KnownAt
<1>3. CASE Drain
  <2> DEFINE late == {runOf[c] : c \in {d \in Calls : stage[d] \in {"checked", "inserted"}}}
  <2>1. /\ phase' = IF Registered = {} THEN "marking" ELSE "draining"
        /\ awaited' = {registry[s] : s \in Registered}
        /\ irregular' = Tagged(late, "undriven") /\ row' = row
    BY <1>3 DEF Drain
  <2>2. r \notin late
    BY <1>0, <2>1, TaggedEffect
  <2>3. \A c \in Calls : runOf[c] = r => stage[c] \notin Starting
    BY <2>2
  <2>4. registry[r] \in awaited' \cup {None}
    BY <2>1 DEF Registered
  <2>5. CASE Registered = {}
    <3>1. registry[r] = None
      BY <2>5 DEF Registered
    <3>2. \A c \in Calls : runOf[c] # r
      BY <2>3, <3>1 DEF KnownAt
    <3>3. phase' = "marking" /\ row'[r] # "running"
      BY <2>1, <2>5, <3>2 DEF WorkedOnAt
    <3>4. QED
      BY <1>0, <1>1, <3>2, <3>3 DEF KnownAt
  <2>6. CASE Registered # {}
    <3>1. phase' = "draining"
      BY <2>1, <2>6
    <3>2. QED
      BY <1>0, <1>1, <2>3, <2>4, <3>1 DEF KnownAt
  <2>7. QED
    BY <2>5, <2>6
<1>4. CASE Drained
  <2>1. /\ phase = "draining" /\ phase' = "marking" /\ row' = row
        /\ (\A c \in awaited : stage[c] = "idle") \/ toMark' = Registered
    BY <1>4 DEF Drained, TimedOut
  <2>2. ASSUME r \notin toMark' PROVE registry[r] = None
    <3>1. CASE \A c \in awaited : stage[c] = "idle"
      <4>1. SUFFICES ASSUME registry[r] # None PROVE FALSE
        OBVIOUS
      <4>2. registry[r] \in awaited /\ registry[r] \in Calls /\ runOf[registry[r]] = r
        BY <1>0, <2>1, <4>1 DEF KnownAt, TypeOK
      <4>3. QED
        <5>1. stage[registry[r]] = "idle" /\ runOf[registry[r]] # None
          BY <3>1, <4>2, NoneIsNoId
        <5>2. QED
          BY <1>0, <4>2, <5>1 DEF TypeOK
    <3>2. CASE toMark' = Registered
      BY <2>2, <3>2 DEF Registered
    <3>3. QED
      BY <2>1, <3>1, <3>2
  <2>3. ASSUME r \notin toMark', NEW c \in Calls PROVE runOf[c] # r
    BY <2>1, <2>2, <2>3 DEF KnownAt
  <2>4. r \notin toMark' => row[r] # "running"
    BY <2>3 DEF WorkedOnAt
  <2>5. /\ phase' = "marking"
        /\ r \notin toMark' => row'[r] # "running" /\ \A c \in Calls : runOf'[c] = r => stage'[c] \notin Answering
    BY <1>0, <2>1, <2>3, <2>4
  <2>6. \A c \in Calls : runOf[c] = r => stage[c] \notin Starting
    BY <2>1 DEF KnownAt
  <2>7. QED
    BY <1>0, <1>1, <2>5, <2>6 DEF KnownAt
<1>5. ASSUME NEW s \in Runs, MarkFailed(s) PROVE KnownAt(r)'
  <2>1. /\ phase = "marking" /\ phase' = "marking" /\ toMark' = toMark \ {s}
    BY <1>5 DEF MarkFailed
  <2>2. CASE r = s
    <3>1. /\ \A c \in Calls : runOf[c] = r => stage[c] \notin Answering
          /\ row' = [row EXCEPT ![r] = IF @ = "running" THEN "failed" ELSE @]
      BY <1>0, <1>5, <2>2, MarkTagged
    <3>2. row'[r] # "running"
      BY <1>0, <3>1 DEF TypeOK
    <3>3. QED
      BY <1>0, <2>1, <3>1, <3>2 DEF KnownAt
  <2>3. CASE r # s
    <3>1. row'[r] = row[r] \/ row'[r] = "failed"
      BY <1>0, OutsideEffect
    <3>2. QED
      BY <1>0, <2>1, <2>3, <3>1 DEF KnownAt
  <2>4. QED
    BY <2>2, <2>3
<1>6. QED
  BY <1>1, <1>2, <1>3, <1>4, <1>5 DEF Outside

\* Every step keeps what is known of a run, or finds it undriven.
LEMMA KnownStep == Sound /\ Known /\ [Next]_vars => Known'
<1> SUFFICES ASSUME Sound, Known, [Next]_vars, NEW r \in Runs, "undriven" \notin irregular'[r]
             PROVE  KnownAt(r)' /\ WorkedOnAt(r)'
  BY DEF Known
<1>0. TypeOK /\ Linked /\ KnownAt(r) /\ WorkedOnAt(r)
  BY IrregularGrows DEF Sound, Known
<1> USE DEF Working
<1>1. ASSUME NEW c \in Calls, GoesOn(c) PROVE KnownAt(r)' /\ WorkedOnAt(r)'
  <2>1. /\ UNCHANGED <<phase, runOf, registry, awaited, toMark>>
        /\ \A d \in Calls \ {c} : stage'[d] = stage[d]
        /\ stage'[c] \in Starting => stage[c] \in Starting
    BY <1>0, <1>1, GoesOnEffect
  <2>2. CASE runOf[c] # r
    <3>1. row'[r] = row[r] /\ \A d \in Calls : runOf[d] = r => stage'[d] = stage[d]
      <4>1. row'[r] = row[r]
        BY <1>0, <1>1, <2>2, GoesOnEffect
      <4>2. QED
        BY <2>1, <2>2, <4>1
    <3>2. QED
      BY <1>0, <2>1, <3>1 DEF KnownAt, WorkedOnAt
  <2>3. CASE runOf[c] = r
    <3>1. stage[c] \in Working => stage'[c] \in Working \/ row'[r] # "running"
      BY <1>0, <1>1, <2>3, GoesOnTable DEF Step
    <3>2. row'[r] = "running" => row[r] = "running" \/ stage'[c] \in Working
      BY <1>0, <1>1, <2>3, GoesOnTable DEF Step
    <3>3. WorkedOnAt(r)'
      BY <1>0, <2>1, <2>3, <3>1, <3>2 DEF WorkedOnAt
    <3>4. stage[c] \in Starting => stage'[c] \in Starting
      BY <1>0, <1>1, <2>3, GoesOnTable DEF Step
    <3>5. phase = "marking" /\ r \notin toMark => row'[r] # "running" /\ stage'[c] \notin Answering
      BY <1>0, <1>1, <2>3, GoesOnTable DEF Step, KnownAt
    <3>6. KnownAt(r)'
      BY <1>0, <2>1, <2>3, <3>4, <3>5 DEF KnownAt
    <3>7. QED
      BY <3>3, <3>6
  <2>4. QED
    BY <2>2, <2>3
<1>2. ASSUME NEW c \in Calls, NEW s \in Runs, Start(c, s) \/ Respond(c, s)
      PROVE  KnownAt(r)' /\ WorkedOnAt(r)'
  <2>1. /\ UNCHANGED <<phase, row, awaited, toMark>> /\ runOf[c] = None /\ runOf'[c] = s
        /\ \A d \in Calls \ {c} : stage'[d] = stage[d] /\ runOf'[d] = runOf[d]
        /\ \A t \in Runs \ {s} : registry'[t] = registry[t]
    <3>1. TypeOK /\ (Start(c, s) \/ Respond(c, s))
      BY <1>0, <1>2
    <3>2. UNCHANGED <<phase, row, awaited, toMark>> /\ runOf[c] = None /\ runOf'[c] = s
      BY <3>1, BeginsEffect
    <3>3. \A d \in Calls \ {c} : stage'[d] = stage[d] /\ runOf'[d] = runOf[d]
      <4>1. stage \in [Calls -> Stages] /\ runOf \in [Calls -> Runs \cup {None}]
        BY <3>1 DEF TypeOK
      <4>2. \E x : stage' = [stage EXCEPT ![c] = x]
        BY <3>1 DEF Start, Respond
      <4>3. runOf' = [runOf EXCEPT ![c] = s]
        BY <3>1 DEF Start, Respond
      <4>4. QED
        BY <4>1, <4>2, <4>3
    <3>4. ASSUME NEW t \in Runs \ {s} PROVE registry'[t] = registry[t]
      BY <3>1 DEF Start, Respond, TypeOK
    <3>5. QED
      BY <3>2, <3>3, <3>4
  <2>2. phase \in {"draining", "marking"} => s # r
    <3>1. Start(c, s) \/ (phase \in {"draining", "marking"} => "undriven" \in irregular'[s])
      BY <1>0, <1>2, BeginsEffect
    <3>2. Start(c, s) => phase = "up"
      BY DEF Start
    <3>3. QED
      BY <3>1, <3>2
  <2>3. WorkedOnAt(r)'
    BY <1>0, <2>1, NoneIsNoId DEF WorkedOnAt
  <2>4. (\E d \in Calls : runOf'[d] = r /\ stage'[d] \notin Starting) => registry'[r] # None
    <3>1. CASE s # r
      BY <1>0, <2>1, <3>1 DEF KnownAt
    <3>2. CASE s = r /\ Start(c, s)
      <4>1. stage'[c] = "checked" /\ \A d \in Calls : runOf[d] # r
        BY <1>0, <3>2 DEF Start, CallsOn, TypeOK
      <4>2. QED
        BY <2>1, <4>1
    <3>3. CASE s = r /\ Respond(c, s)
      <4>1. registry'[r] = c
        BY <1>0, <3>3 DEF Respond, TypeOK
      <4>2. QED
        BY <4>1, NoneIsNoId
    <3>4. QED
      BY <1>2, <3>1, <3>2, <3>3
  <2>5. CASE s # r
    <3>1. registry'[r] = registry[r] /\ \A d \in Calls : runOf'[d] = r => runOf[d] = r /\ stage'[d] = stage[d]
      BY <2>1, <2>5
    <3>2. QED
      BY <1>0, <2>1, <2>3, <3>1 DEF KnownAt
  <2>6. CASE s = r
    BY <2>1, <2>2, <2>3, <2>4, <2>6 DEF KnownAt
  <2>7. QED
    BY <2>5, <2>6
<1>3. ASSUME NEW c \in Calls, InsertFails(c) \/ Launch(c) PROVE KnownAt(r)' /\ WorkedOnAt(r)'
  <2>1. /\ UNCHANGED <<phase, row, awaited, toMark>>
        /\ \A d \in Calls \ {c} : stage'[d] = stage[d] /\ runOf'[d] = runOf[d]
    BY <1>0, <1>3, StartingEffect
  <2>2. CASE InsertFails(c)
    <3>1. stage[c] = "checked" /\ runOf'[c] = None /\ registry' = registry
      BY <1>0, <2>2 DEF InsertFails, TypeOK
    <3>2. \A d \in Calls : runOf'[d] = r => runOf[d] = r /\ stage'[d] = stage[d]
      BY <2>1, <3>1, NoneIsNoId
    <3>3. \A d \in Calls : runOf[d] = r /\ stage[d] \in Working =>
              runOf'[d] = r /\ stage'[d] \in Working
      BY <2>1, <3>1
    <3>4. QED
      BY <1>0, <2>1, <3>1, <3>2, <3>3 DEF KnownAt, WorkedOnAt
  <2>3. CASE Launch(c)
    <3>1. /\ stage[c] = "inserted" /\ stage'[c] = "looping" /\ runOf' = runOf
          /\ registry' = [registry EXCEPT ![runOf[c]] = c]
      BY <1>0, <2>3 DEF Launch, TypeOK
    <3>2. CASE runOf[c] = r
      <4>1. registry'[r] = c /\ registry'[r] # None
        BY <1>0, <3>1, <3>2, NoneIsNoId DEF TypeOK
      <4>2. phase \notin {"draining", "marking"}
        BY <1>0, <3>1, <3>2 DEF KnownAt
      <4>3. WorkedOnAt(r)'
        BY <3>1, <3>2 DEF WorkedOnAt
      <4>4. QED
        BY <2>1, <4>1, <4>2, <4>3 DEF KnownAt
    <3>3. CASE runOf[c] # r
      <4>1. registry'[r] = registry[r] /\ \A d \in Calls : runOf[d] = r => stage'[d] = stage[d]
        BY <1>0, <2>1, <3>1, <3>3 DEF TypeOK
      <4>2. QED
        BY <1>0, <2>1, <3>1, <4>1 DEF KnownAt, WorkedOnAt
    <3>4. QED
      BY <3>2, <3>3
  <2>4. QED
    BY <1>3, <2>2, <2>3
<1>4. ASSUME NEW c \in Calls, Leaves(c) PROVE KnownAt(r)' /\ WorkedOnAt(r)'
  <2>1. /\ UNCHANGED <<phase, row, awaited, toMark>> /\ runOf'[c] = None
        /\ \A d \in Calls \ {c} : stage'[d] = stage[d] /\ runOf'[d] = runOf[d]
    BY <1>0, <1>4, LeavesEffect
  <2>2. CASE runOf[c] # r
    <3>1. registry'[r] = registry[r]
      BY <1>0, <1>4, <2>2, LeavesEffect
    <3>2. QED
      BY <1>0, <2>1, <2>2, <3>1, NoneIsNoId DEF KnownAt, WorkedOnAt
  <2>3. CASE runOf[c] = r
    <3>1. /\ registry'[r] = None /\ stage[c] \notin Working
          /\ \A d \in Calls \ {c} : runOf[d] # r
      BY <1>0, <1>4, <2>3, LeavesEffect
    <3>2. \A d \in Calls : runOf'[d] # r
      BY <2>1, <3>1, NoneIsNoId
    <3>3. row[r] # "running"
      BY <1>0, <3>1 DEF WorkedOnAt
    <3>4. QED
      BY <2>1, <3>1, <3>2, <3>3 DEF KnownAt, WorkedOnAt
  <2>4. QED
    BY <2>2, <2>3
<1>5. ASSUME NEW c \in Calls, AskAside(c) PROVE KnownAt(r)' /\ WorkedOnAt(r)'
  BY <1>0, <1>5 DEF AskAside, gatewayVars, KnownAt, WorkedOnAt
<1>6. CASE Outside
  BY <1>0, <1>6, KnownOutside
<1>7. CASE Exit \/ Crash
  <2>1. phase' = "down" /\ row' = row
    BY <1>7 DEF Exit, Crash, Gone
  <2>2. \A c \in Calls : runOf'[c] = None
    BY <1>0, <1>7, GoneEffect DEF Exit, Crash
  <2>3. row[r] # "running"
    <3>1. CASE Exit
      BY <1>0, <3>1 DEF Exit, KnownAt
    <3>2. CASE Crash
      <4>1. Gone({"undriven"})
        BY <3>2 DEF Crash
      <4>2. \A c \in Calls : runOf[c] # r
        BY <1>0, <4>1, GoneEffect
      <4>3. QED
        BY <1>0, <4>2 DEF WorkedOnAt
    <3>3. QED
      BY <1>7, <3>1, <3>2
  <2>4. QED
    BY <2>1, <2>2, <2>3, NoneIsNoId DEF KnownAt, WorkedOnAt
<1>8. CASE UNCHANGED vars
  BY <1>0, <1>8 DEF vars, KnownAt, WorkedOnAt
<1>9. QED
  BY <1>1, <1>2, <1>3, <1>4, <1>5, <1>6, <1>7, <1>8 DEF Next, GoesOn, Outside, Leaves

-------------------------------------------------------------------------------
(* Paused runs.                                                              *)

AnswerableAt(r) == row[r] = "paused" =>
    r \in question \/ \E c \in Calls : runOf[c] = r /\ stage[c] = "answered"

Answerable == \A r \in Runs :
    irregular[r] \cap {"answered twice", "half answered"} # {} \/ AnswerableAt(r)

\* No step leaves a paused run without a question or an answer.
LEMMA AnswerableStep == Sound /\ Solo /\ Answerable /\ [Next]_vars => Answerable'
<1> SUFFICES ASSUME Sound, Solo, Answerable, [Next]_vars, NEW r \in Runs,
                    "answered twice" \notin irregular'[r], "half answered" \notin irregular'[r],
                    row'[r] = "paused"
             PROVE  r \in question' \/ \E c \in Calls : runOf'[c] = r /\ stage'[c] = "answered"
  BY DEF Answerable, AnswerableAt
<1>0. TypeOK /\ SoloAt(r) /\ AnswerableAt(r)
  BY IrregularGrows DEF Sound, Solo, Answerable
<1> DEFINE Goal == r \in question' \/ \E c \in Calls : runOf'[c] = r /\ stage'[c] = "answered"
<1>1. ASSUME NEW c \in Calls, GoesOn(c) PROVE Goal
  <2>1. runOf' = runOf /\ \A d \in Calls \ {c} : stage'[d] = stage[d]
    BY <1>0, <1>1, GoesOnEffect
  <2>2. CASE runOf[c] # r
    <3>1. row'[r] = row[r] /\ (r \in question' <=> r \in question)
      BY <1>0, <1>1, <2>2, GoesOnEffect
    <3>2. QED
      BY <1>0, <2>1, <2>2, <3>1 DEF AnswerableAt
  <2>3. CASE runOf[c] = r
    <3>1. CASE row[r] = "paused"
      <4>1. stage[c] # "answered"
        BY <1>0, <1>1, <2>3, GoesOnTable DEF Step
      <4>2. (r \in question' <=> r \in question) \/ r \in question' \/ stage'[c] = "answered"
        BY <1>0, <1>1, <2>3, GoesOnTable DEF Step
      <4>3. QED
        BY <1>0, <2>1, <2>3, <3>1, <4>1, <4>2 DEF AnswerableAt
    <3>2. CASE row[r] # "paused"
      <4>1. stage[c] = "asking" /\ (r \in question' <=> r \in question)
        BY <1>0, <1>1, <2>3, <3>2, GoesOnTable DEF Step
      <4>2. QED
        BY <1>0, <2>3, <4>1 DEF SoloAt
    <3>3. QED
      BY <3>1, <3>2
  <2>4. QED
    BY <2>2, <2>3
<1>2. ASSUME NEW c \in Calls, NEW s \in Runs, Start(c, s) \/ Respond(c, s) PROVE Goal
  <2>1. /\ UNCHANGED <<row, question>> /\ runOf[c] = None
        /\ \A d \in Calls \ {c} : stage'[d] = stage[d] /\ runOf'[d] = runOf[d]
    BY <1>0, <1>2, BeginsEffect
  <2>2. QED
    BY <1>0, <2>1, NoneIsNoId DEF AnswerableAt
<1>3. ASSUME NEW c \in Calls, InsertFails(c) \/ Launch(c) PROVE Goal
  <2>1. /\ UNCHANGED <<row, question>> /\ stage[c] # "answered"
        /\ \A d \in Calls \ {c} : stage'[d] = stage[d] /\ runOf'[d] = runOf[d]
    BY <1>0, <1>3, StartingEffect
  <2>2. QED
    BY <1>0, <2>1 DEF AnswerableAt
<1>4. ASSUME NEW c \in Calls, Leaves(c) PROVE Goal
  <2>1. /\ UNCHANGED <<row, question>> /\ (runOf[c] = r => stage[c] # "answered")
        /\ \A d \in Calls \ {c} : stage'[d] = stage[d] /\ runOf'[d] = runOf[d]
    BY <1>0, <1>4, LeavesEffect
  <2>2. QED
    BY <1>0, <2>1 DEF AnswerableAt
<1>5. ASSUME NEW c \in Calls, AskAside(c) PROVE Goal
  BY <1>0, <1>5 DEF AskAside, AnswerableAt
<1>6. CASE Outside
  BY <1>0, <1>6, OutsideEffect DEF AnswerableAt
<1>7. CASE Exit \/ Crash
  <2>1. PICK tags \in SUBSET Irregularities : Gone(tags)
    BY <1>7 DEF Exit, Crash
  <2>2. UNCHANGED <<row, question>>
    BY <2>1 DEF Gone
  <2>3. \A c \in Calls : runOf[c] = r => stage[c] # "answered"
    BY <1>0, <2>1, GoneEffect
  <2>4. QED
    BY <1>0, <2>2, <2>3 DEF AnswerableAt
<1>8. CASE UNCHANGED vars
  BY <1>0, <1>8 DEF vars, AnswerableAt
<1>9. QED
  BY <1>1, <1>2, <1>3, <1>4, <1>5, <1>6, <1>7, <1>8 DEF Next, GoesOn, Outside, Leaves

-------------------------------------------------------------------------------
(* The theorems.                                                             *)

IInv == Sound /\ Solo /\ Settled /\ Known /\ Answerable

\* The parts are inductive together; each rests on the ones before it.
LEMMA Invariance == Spec => []IInv
<1>1. Init => IInv
  <2>1. Init => Sound
    BY NoneIsNoId DEF Init, Sound, TypeOK, Linked
  <2>2. ASSUME Init, NEW r \in Runs
        PROVE  SoloAt(r) /\ SettledAt(r) /\ KnownAt(r) /\ WorkedOnAt(r) /\ AnswerableAt(r)
    <3>1. row[r] = "none" /\ phase = "up" /\ \A c \in Calls : runOf[c] # r
      BY <2>2, NoneIsNoId DEF Init
    <3>2. QED
      BY <3>1 DEF SoloAt, SettledAt, KnownAt, WorkedOnAt, AnswerableAt
  <2>3. QED
    BY <2>1, <2>2 DEF IInv, Solo, Settled, Known, Answerable
<1>2. IInv /\ [Next]_vars => IInv'
  BY SoundStep, SoloStep, SettledStep, KnownStep, AnswerableStep DEF IInv
<1>3. QED
  BY <1>1, <1>2, PTL DEF Spec

\* The state is well formed; in particular a registered call works on the run it is
\* registered for, whatever answers come and calls end in between.
THEOREM TypeCorrect == Spec => []TypeOK
<1>1. IInv => TypeOK
  BY DEF IInv, Sound
<1>2. QED
  BY <1>1, Invariance, PTL

\* At most one engine call drives a run that was not answered twice.
THEOREM SingleDriver == Spec => []OneDriver
<1>1. IInv => OneDriver
  BY DEF IInv, Solo, SoloAt, OneDriver, Drives
<1>2. QED
  BY <1>1, Invariance, PTL

\* A row says running only while a call works on the run, up to and after a graceful
\* exit, unless the call died or shutdown could not know of it.
THEOREM RunningIsTrue == Spec => []RunningIsDriven
<1>1. IInv => RunningIsDriven
  BY DEF IInv, Known, WorkedOnAt, Working, RunningIsDriven
<1>2. QED
  BY <1>1, Invariance, PTL

\* A paused run has an open question, or an answer to it is being taken.
THEOREM NobodyWaitsInVain == Spec => []PausedIsAnswerable
<1>1. IInv => PausedIsAnswerable
  BY DEF IInv, Answerable, AnswerableAt, PausedIsAnswerable, CallsOn
<1>2. QED
  BY <1>1, Invariance, PTL

\* No late answer revives a completed or failed run, and no late call rewrites it.
THEOREM FinalIsFinal == Spec => FinalStays
<1> DEFINE Stays == \A r \in Runs :
        row[r] \in Final /\ irregular[r] \cap {"answered twice", "overruled"} = {} => row'[r] = row[r]
<1>1. IInv /\ [Next]_vars => [Stays]_vars
  <2> SUFFICES ASSUME IInv, [Next]_vars, NEW r \in Runs, row[r] \in Final,
                      irregular[r] \cap {"answered twice", "overruled"} = {}
               PROVE  row'[r] = row[r]
    OBVIOUS
  <2>0. TypeOK /\ SettledAt(r)
    BY DEF IInv, Sound, Settled
  <2>1. ASSUME NEW c \in Calls, GoesOn(c) PROVE row'[r] = row[r]
    <3>1. CASE runOf[c] = r
      <4>1. stage[c] \notin Active
        BY <2>0, <3>1 DEF SettledAt
      <4>2. QED
        BY <2>0, <2>1, <3>1, <4>1, GoesOnTable DEF Step, Active
    <3>2. CASE runOf[c] # r
      BY <2>0, <2>1, <3>2, GoesOnEffect
    <3>3. QED
      BY <3>1, <3>2
  <2>2. ASSUME NEW c \in Calls, NEW s \in Runs, Start(c, s) \/ Respond(c, s) PROVE row' = row
    BY <2>0, <2>2, BeginsEffect
  <2>3. ASSUME NEW c \in Calls, InsertFails(c) \/ Launch(c) \/ AskAside(c) PROVE row' = row
    BY <2>3 DEF InsertFails, Launch, AskAside
  <2>4. ASSUME NEW c \in Calls, Leaves(c) PROVE row' = row
    BY <2>0, <2>4, LeavesEffect
  <2>5. CASE Outside
    BY <2>0, <2>5, OutsideEffect
  <2>6. CASE Exit \/ Crash
    BY <2>6 DEF Exit, Crash, Gone
  <2>7. CASE UNCHANGED vars
    BY <2>7 DEF vars
  <2>8. QED
    BY <2>1, <2>2, <2>3, <2>4, <2>5, <2>6, <2>7 DEF Next, GoesOn, Outside, Leaves
<1>2. QED
  BY <1>1, Invariance, PTL DEF Spec, FinalStays
===============================================================================
