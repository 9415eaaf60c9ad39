-------------------------- MODULE SyntaxWorkerProofs --------------------------
(***************************************************************************)
(* Proofs about SyntaxWorker for every number of documents, languages,     *)
(* operations and changes behind a tab.                                    *)
(*                                                                         *)
(* Requests are told apart by their serial numbers, so that what is queued *)
(* or running is never also completed (Serialized); a model waits for the  *)
(* text it displays, which is never newer than the document's (Aligned).   *)
(***************************************************************************)
EXTENDS SyntaxWorker, WellFoundedInduction, TLAPS

USE DEF vars, workerVars, editorVars, documentVars, requestVars, countVars

\* A set of documents has a least one.
LEMMA LeastDocument ==
    ASSUME NEW S, S \subseteq Documents, S # {}
    PROVE  \E d \in S : \A e \in S : d <= e
<1> DEFINE R == OpToRel(<, Nat)
<1>1. IsWellFoundedOn(R, Nat)
  BY NatLessThanWellFounded
<1>2. \A m, n \in Nat : m < n => <<m, n>> \in R
  BY DEF OpToRel
<1> HIDE DEF R
<1>3. S \subseteq Nat
  BY SyntaxAssumption
<1>4. PICK d \in S : \A e \in S : ~ (<<e, d>> \in R)
  BY <1>1, <1>3, WFMin
<1>5. ASSUME NEW e \in S PROVE d <= e
  <2>1. d \in Nat /\ e \in Nat
    BY <1>3
  <2>2. ~(e < d)
    BY <2>1, <1>2, <1>4
  <2> QED BY <2>1, <2>2
<1> QED BY <1>5

\* The worker and the workspace find the document they look for.
LEMMA DocumentsFound ==
    /\ Queued # {} => Lowest \in Queued
    /\ MayOpen => NewDocument \in Documents /\ document[NewDocument] = NoText
<1>1. ASSUME Queued # {} PROVE Lowest \in Queued
  <2>1. \E d \in Queued : \A e \in Queued : d <= e
    BY <1>1, LeastDocument DEF Queued
  <2> QED BY <2>1 DEF Lowest
<1>2. ASSUME MayOpen
      PROVE  NewDocument \in Documents /\ document[NewDocument] = NoText
  <2> DEFINE unused == {d \in Documents : document[d] = NoText}
  <2>1. \E d \in unused : \A e \in unused : d <= e
    BY <1>2, LeastDocument DEF MayOpen
  <2>2. \E d \in Documents : /\ document[d] = NoText
                             /\ \A e \in Documents : document[e] = NoText => d <= e
    BY <2>1
  <2> QED BY <2>2 DEF NewDocument
<1> QED BY <1>1, <1>2

-----------------------------------------------------------------------------
(* What the editor's operations come to: a document is shown a text, is     *)
(* closed, or changes behind its tab.                                       *)

Shows(d, text, edited) ==
    /\ operations' = operations + 1 /\ rpc = "idle"
    /\ Show(d, text, edited)
    /\ document[d].revision <= text.revision
    /\ edited => /\ d = active /\ d \in open
                 /\ text.language = document[d].language
                 /\ text.revision = document[d].revision + 1
    /\ d \in open' /\ open \subseteq open' /\ open' \subseteq open \cup {d}
    /\ d \notin open => document[d] = NoText /\ text.revision = 1
    /\ active' \in {active, d}
    /\ UNCHANGED <<workerVars, editorVars, wake, background>>

Discards(d) ==
    /\ operations' = operations + 1 /\ rpc = "idle"
    /\ Discard(d)
    /\ active' \in open' \cup {NoDocument}
    /\ neglected \subseteq neglected' /\ neglected' \subseteq Documents
    /\ active' \in {active, NoDocument} \cup neglected'
       \/ requested[active'] = Asked(document[active'])
    /\ UNCHANGED <<workerVars, editorVars, wake, background, document, requested>>

ChangesBehind(d, text) ==
    /\ document' = [document EXCEPT ![d] = text]
    /\ document[d].revision <= text.revision
    /\ d # active /\ background' = background + 1
    /\ UNCHANGED <<workerVars, editorVars, requestVars, open, active, requested,
                   neglected, operations, wake>>

\* A text that follows another one is a text.
LEMMA NextTexts ==
    ASSUME TypeOK, NEW d \in Documents, NEW large \in BOOLEAN
    PROVE  /\ NextText(d, large) \in Texts
           /\ NextText(d, large).revision = document[d].revision + 1
           /\ NextText(d, large).language = document[d].language
<1>1. document[d] \in Texts
  BY DEF TypeOK
<1> QED BY <1>1 DEF NextText, Texts

LEMMA RewritingTexts ==
    ASSUME TypeOK, NEW d \in Documents, NEW text \in Rewritings(d)
    PROVE  text \in Texts /\ document[d].revision <= text.revision
<1>1. document[d] \in Texts
  BY DEF TypeOK
<1> QED BY <1>1, SyntaxAssumption DEF Rewritings, Texts, AllLanguages

\* Every operation is of one of the three kinds.
LEMMA OperationKinds ==
    ASSUME TypeOK, Operation
    PROVE  \/ \E d \in Documents, text \in Texts, edited \in BOOLEAN :
                 Shows(d, text, edited)
           \/ \E d \in Documents : Discards(d)
           \/ \E d \in Documents, text \in Texts : ChangesBehind(d, text)
<1> USE DEF Operate
<1>1. ASSUME NEW language \in Languages, NEW large \in Sizes,
             Open(language, large)
      PROVE  \E d \in Documents, text \in Texts, edited \in BOOLEAN :
                Shows(d, text, edited)
  <2> DEFINE d == NewDocument
             text == [revision |-> 1, language |-> language, large |-> large]
  <2>1. d \in Documents /\ document[d] = NoText
    BY <1>1, DocumentsFound DEF Open
  <2>2. text \in Texts
    BY SyntaxAssumption DEF Texts, AllLanguages
  <2>3. document[d].revision <= text.revision
    BY <2>1 DEF NoText
  <2>4. Shows(d, text, FALSE)
    BY <1>1, <2>1, <2>3 DEF Open, Shows
  <2> HIDE DEF d, text
  <2> QED BY <2>1, <2>2, <2>4
<1>2. ASSUME NEW large \in Sizes, Edit(large)
      PROVE  \E d \in Documents, text \in Texts, edited \in BOOLEAN :
                Shows(d, text, edited)
  <2> DEFINE text == NextText(active, large)
  <2>1. active \in Documents /\ active \in open
    BY <1>2 DEF Edit, TypeOK
  <2>2. /\ text \in Texts /\ text.revision = document[active].revision + 1
        /\ text.language = document[active].language
        /\ document[active].revision <= text.revision
    <3>1. document[active].revision \in Nat
      BY <2>1 DEF TypeOK, Texts
    <3> QED BY <2>1, <3>1, NextTexts, SyntaxAssumption
  <2> HIDE DEF text
  <2>3. Show(active, text, TRUE)
    BY <1>2 DEF Edit, text
  <2>4. Shows(active, text, TRUE)
    BY <1>2, <2>1, <2>2, <2>3 DEF Edit, Shows
  <2> QED BY <2>1, <2>2, <2>4
<1>3. ASSUME Rewrite
      PROVE  \E d \in Documents, text \in Texts, edited \in BOOLEAN :
                Shows(d, text, edited)
  <2>1. active \in Documents /\ active \in open
    BY <1>3 DEF Rewrite, TypeOK
  <2>2. PICK text \in Rewritings(active) : Show(active, text, FALSE)
    BY <1>3 DEF Rewrite
  <2>3. text \in Texts /\ document[active].revision <= text.revision
    BY <2>1, RewritingTexts
  <2>4. Shows(active, text, FALSE)
    BY <1>3, <2>1, <2>2, <2>3 DEF Rewrite, Shows
  <2> QED BY <2>1, <2>3, <2>4
<1>4. ASSUME NEW d \in Documents, Activate(d)
      PROVE  \E text \in Texts, edited \in BOOLEAN : Shows(d, text, edited)
  <2>1. document[d] \in Texts /\ document[d].revision <= document[d].revision
    BY DEF TypeOK, Texts
  <2>2. Shows(d, document[d], FALSE)
    BY <1>4, <2>1 DEF Activate, Shows
  <2> QED BY <2>1, <2>2
<1>5. ASSUME NEW d \in Documents, ReloadOffered(d)
      PROVE  \E text \in Texts, edited \in BOOLEAN : Shows(d, text, edited)
  <2> DEFINE text == NextText(d, document[d].large)
  <2>1. text \in Texts /\ document[d].revision <= text.revision
    <3>1. document[d].revision \in Nat /\ document[d].large \in BOOLEAN
      BY DEF TypeOK, Texts
    <3> QED BY <3>1, NextTexts
  <2> HIDE DEF text
  <2>2. Show(d, text, FALSE)
    BY <1>5 DEF ReloadOffered, text
  <2>3. Shows(d, text, FALSE)
    BY <1>5, <2>1, <2>2 DEF ReloadOffered, Shows
  <2> QED BY <2>1, <2>3
<1>6. ASSUME NEW d \in Documents, CloseBehind(d)
      PROVE  Discards(d)
  BY <1>6 DEF CloseBehind, Discards, Discard, TypeOK
<1>7. ASSUME Delete
      PROVE  \E d \in Documents : Discards(d)
  <2>1. active \in Documents
    BY <1>7 DEF Delete, TypeOK
  <2>2. active' \in open' \cup {NoDocument} /\ open' \subseteq Documents
    BY <1>7 DEF Delete, Discard, TypeOK
  <2>3. neglected \subseteq neglected' /\ neglected' \subseteq Documents
    BY <1>7, <2>2 DEF Delete, TypeOK
  <2>4. active' \in {active, NoDocument} \cup neglected'
        \/ requested[active'] = Asked(document[active'])
    BY <1>7 DEF Delete
  <2>5. Discards(active)
    BY <1>7, <2>2, <2>3, <2>4 DEF Delete, Discards
  <2> QED BY <2>1, <2>5
<1>8. ASSUME NEW d \in Documents, ChangeBehind(d)
      PROVE  \E text \in Texts : ChangesBehind(d, text)
  <2>1. PICK text \in Rewritings(d) : document' = [document EXCEPT ![d] = text]
    BY <1>8 DEF ChangeBehind
  <2>2. text \in Texts /\ document[d].revision <= text.revision
    BY RewritingTexts
  <2>3. ChangesBehind(d, text)
    BY <1>8, <2>1, <2>2 DEF ChangeBehind, ChangesBehind
  <2> QED BY <2>2, <2>3
<1> QED
  BY <1>1, <1>2, <1>3, <1>4, <1>5, <1>6, <1>7, <1>8 DEF Operation

-----------------------------------------------------------------------------
(* Types.                                                                   *)

LEMMA SerialTypes ==
    ASSUME NEW rs, rs \subseteq Requests \cup {NoRequest}
    PROVE  Serials(rs) \subseteq Nat
BY DEF Serials, Requests, NoRequest

LEMMA ViewTypes ==
    ASSUME NEW text, text.revision \in Nat, text.language \in AllLanguages,
           NEW request \in Requests \cup {NoRequest}
    PROVE  View(text, request) \in Models
BY DEF View, Models

\* Asking a model keeps the types.
LEMMA RefreshTypes ==
    ASSUME TypeOK, operations' = operations + 1,
           NEW d \in Documents, NEW text \in Texts, NEW edited,
           Refresh(d, text, edited)
    PROVE  /\ model' \in [Documents -> Models]
           /\ queued' \in [Documents -> Requests \cup {NoRequest}]
           /\ cancelled' \in SUBSET Nat
<1> DEFINE request == [serial |-> operations', document |-> d,
                       revision |-> text.revision, language |-> text.language]
<1>1. text.revision \in Nat /\ text.language \in AllLanguages
  BY DEF Texts
<1>2. request \in Requests
  BY <1>1 DEF TypeOK, Requests
<1> HIDE DEF request
<1>3. View(text, request) \in Models /\ View(text, NoRequest) \in Models
  BY <1>1, <1>2, ViewTypes
<1>4. model[d].pending \in Requests \cup {NoRequest}
  BY DEF TypeOK, Models
<1>5. /\ Serials({model[d].pending}) \subseteq Nat
      /\ Serials(Superseded(d)) \subseteq Nat
  BY <1>4, SerialTypes DEF TypeOK, Superseded, RunningOf
<1>6. CASE UNCHANGED requestVars
  BY <1>6 DEF TypeOK
<1>7. CASE /\ model' = [model EXCEPT ![d] = View(text, NoRequest)]
           /\ cancelled' = cancelled \cup Serials({model[d].pending})
           /\ UNCHANGED queued
  BY <1>3, <1>5, <1>7 DEF TypeOK
<1>8. CASE /\ model' = [model EXCEPT ![d] = View(text, request)]
           /\ queued' = [queued EXCEPT ![d] = request]
           /\ cancelled' = cancelled \cup Serials(Superseded(d))
  BY <1>2, <1>3, <1>5, <1>8 DEF TypeOK
<1> QED BY <1>6, <1>7, <1>8 DEF Refresh, request

\* An operation of the editor keeps the types.
LEMMA OperationTypes ==
    ASSUME TypeOK, Operation
    PROVE  TypeOK'
<1>1. ASSUME NEW d \in Documents, NEW text \in Texts, NEW edited \in BOOLEAN,
             Shows(d, text, edited)
      PROVE  TypeOK'
  <2>1. /\ model' \in [Documents -> Models]
        /\ queued' \in [Documents -> Requests \cup {NoRequest}]
        /\ cancelled' \in SUBSET Nat
    BY <1>1, RefreshTypes DEF Shows, Show
  <2>2. /\ document' \in [Documents -> Texts]
        /\ requested' \in [Documents -> [revision : Nat, language : AllLanguages]]
    BY <1>1 DEF TypeOK, Shows, Show, Asked, Texts
  <2>3. open' \subseteq Documents /\ active' \in open' \cup {NoDocument}
    BY <1>1 DEF TypeOK, Shows
  <2> QED BY <1>1, <2>1, <2>2, <2>3 DEF TypeOK, Shows, Show
<1>2. ASSUME NEW d \in Documents, Discards(d)
      PROVE  TypeOK'
  <2>1. Serials({queued[d], RunningOf(d)}) \subseteq Nat
    BY SerialTypes DEF TypeOK, RunningOf
  <2>2. InitialModel \in Models
    BY DEF InitialModel, Models, AllLanguages
  <2>3. /\ model' \in [Documents -> Models]
        /\ queued' \in [Documents -> Requests \cup {NoRequest}]
        /\ cancelled' \in SUBSET Nat
        /\ open' \subseteq Documents
    BY <1>2, <2>1, <2>2 DEF TypeOK, Discards, Discard
  <2> QED BY <1>2, <2>3 DEF TypeOK, Discards
<1>3. ASSUME NEW d \in Documents, NEW text \in Texts, ChangesBehind(d, text)
      PROVE  TypeOK'
  BY <1>3 DEF TypeOK, ChangesBehind
<1> QED BY <1>1, <1>2, <1>3, OperationKinds

\* A step of the worker keeps the types.
LEMMA WorkerTypes ==
    ASSUME TypeOK, Worker
    PROVE  TypeOK'
<1> USE DEF WorkerUnchanged
<1>1. CASE Take
  <2>1. Lowest \in Documents /\ queued[Lowest] # NoRequest
    BY <1>1, DocumentsFound DEF Take, Queued
  <2> QED BY <1>1, <2>1 DEF Take, TypeOK
<1>2. CASE Parse
  <2>1. running \in Requests
    BY <1>2 DEF Parse, TypeOK
  <2>2. completed' \in Seq(Completions)
    <3>1. PICK status \in Statuses :
             completed' = Append(completed, [request |-> running, status |-> status])
      BY <1>2 DEF Parse
    <3>2. [request |-> running, status |-> status] \in Completions
      BY <2>1, <3>1 DEF Completions
    <3> QED BY <3>1, <3>2 DEF TypeOK
  <2> QED BY <1>2, <2>2 DEF Parse, TypeOK
<1>3. CASE NotifyEditor \/ ObserveStop
  BY <1>3 DEF NotifyEditor, ObserveStop, TypeOK
<1> QED BY <1>1, <1>2, <1>3 DEF Worker

\* A step of the editor thread keeps the types.
LEMMA EditorTypes ==
    ASSUME TypeOK, Pump \/ Stop \/ Join
    PROVE  TypeOK'
<1> USE DEF PumpUnchanged
<1>1. CASE Consume \/ EndPump
  BY <1>1 DEF Consume, EndPump, TypeOK
<1>5. CASE Drain
  <2>1. inbox' \in Seq(Completions) /\ completed' \in Seq(Completions)
    BY <1>5 DEF Drain, TypeOK
  <2> QED BY <1>5, <2>1 DEF Drain, TypeOK
<1>2. CASE Accept
  <2> DEFINE c == Head(inbox)
  <2>1. c \in Completions /\ inbox' \in Seq(Completions)
    BY <1>2 DEF Accept, TypeOK
  <2>2. c.request \in Requests /\ c.request.document \in Documents
    BY <2>1 DEF Completions, Requests
  <2>3. View(c.request, NoRequest) \in Models
    BY <2>2, ViewTypes DEF Requests
  <2> HIDE DEF c
  <2>4. [View(c.request, NoRequest) EXCEPT !.parsed = (c.status = "Parsed")]
           \in Models
    BY <2>3 DEF Models
  <2>5. model' \in [Documents -> Models]
    BY <1>2, <2>2, <2>4 DEF Accept, TypeOK, c
  <2> QED BY <1>2, <2>1, <2>5 DEF Accept, TypeOK
<1>3. CASE Stop
  <2>1. Serials({running} \cup {queued[d] : d \in Documents}) \subseteq Nat
    <3>1. {running} \cup {queued[d] : d \in Documents} \subseteq Requests \cup {NoRequest}
      BY DEF TypeOK
    <3> QED BY <3>1, SerialTypes
  <2> QED BY <1>3, <2>1 DEF Stop, TypeOK
<1>4. CASE Join
  BY <1>4 DEF Join, TypeOK
<1> QED BY <1>1, <1>2, <1>3, <1>4, <1>5 DEF Pump

\* The model's variables keep their types in every behaviour.
THEOREM TypeCorrect == Spec => []TypeOK
<1>1. Init => TypeOK
  <2> SUFFICES ASSUME Init PROVE TypeOK
    OBVIOUS
  <2>1. NoText \in Texts /\ InitialModel \in Models
    BY DEF NoText, InitialModel, Texts, Models, AllLanguages
  <2>2. Asked(NoText) \in [revision : Nat, language : AllLanguages]
    BY DEF NoText, Asked, AllLanguages
  <2>3. completed \in Seq(Completions) /\ inbox \in Seq(Completions)
    BY DEF Init
  <2>4. /\ document \in [Documents -> Texts] /\ model \in [Documents -> Models]
        /\ requested \in [Documents -> [revision : Nat, language : AllLanguages]]
        /\ queued \in [Documents -> Requests \cup {NoRequest}]
    BY <2>1, <2>2 DEF Init
  <2> QED BY <2>3, <2>4 DEF Init, TypeOK
<1>2. TypeOK /\ [Next]_vars => TypeOK'
  <2> SUFFICES ASSUME TypeOK, [Next]_vars
               PROVE  TypeOK'
    OBVIOUS
  <2>1. CASE UNCHANGED vars
    BY <2>1 DEF TypeOK
  <2>2. CASE Next
    BY <2>1, <2>2, OperationTypes, WorkerTypes, EditorTypes DEF Next, Ended
  <2> QED BY <2>1, <2>2
<1> QED BY <1>1, <1>2, PTL DEF Spec

-----------------------------------------------------------------------------
(* The hand-off of completions.                                             *)

\* The editor thread takes and handles completions between two operations,
\* and the session ends there.
Scheduled ==
    /\ rpc # "accepting" => inbox = <<>>
    /\ stop <=> rpc \in {"joining", "joined"}

LEMMA ScheduledAlways == Spec => []Scheduled
<1>1. Init => Scheduled
  BY DEF Init, Scheduled
<1>2. TypeOK /\ Scheduled /\ [Next]_vars => Scheduled'
  <2> SUFFICES ASSUME TypeOK, Scheduled, [Next]_vars
               PROVE  Scheduled'
    OBVIOUS
  <2> USE DEF Scheduled
  <2>1. CASE UNCHANGED vars
    BY <2>1
  <2>2. CASE Operation
    BY <2>2, OperationKinds DEF Shows, Discards, ChangesBehind
  <2>3. CASE Worker
    BY <2>3 DEF Worker, WorkerUnchanged, Take, Parse, NotifyEditor, ObserveStop
  <2>4. CASE Pump
    BY <2>4 DEF Pump, PumpUnchanged, Consume, Drain, Accept, EndPump
  <2>5. CASE Stop \/ Join \/ Ended
    BY <2>5 DEF Stop, Join, Ended
  <2> QED BY <2>1, <2>2, <2>3, <2>4, <2>5 DEF Next
<1> QED BY <1>1, <1>2, TypeCorrect, PTL DEF Spec

\* A completion that is queued is always about to be drained: run() notifies
\* after it queued one, and pumpSyntax() consumes the wake byte before it
\* drains.
THEOREM CompletionNotLost == Spec => []NoLostCompletion
<1>1. Init => NoLostCompletion
  BY DEF Init, NoLostCompletion
<1>2. TypeOK /\ NoLostCompletion /\ [Next]_vars => NoLostCompletion'
  <2> SUFFICES ASSUME TypeOK, NoLostCompletion, [Next]_vars
               PROVE  NoLostCompletion'
    OBVIOUS
  <2> USE DEF NoLostCompletion
  <2>1. CASE UNCHANGED vars
    BY <2>1
  <2>2. CASE Operation
    BY <2>2, OperationKinds DEF Shows, Discards, ChangesBehind
  <2>3. CASE Worker
    BY <2>3 DEF Worker, WorkerUnchanged, Take, Parse, NotifyEditor, ObserveStop
  <2>4. CASE Pump
    BY <2>4 DEF Pump, PumpUnchanged, Consume, Drain, Accept, EndPump
  <2>5. CASE Stop \/ Join \/ Ended
    BY <2>5 DEF Stop, Join, Ended
  <2> QED BY <2>1, <2>2, <2>3, <2>4, <2>5 DEF Next
<1> QED BY <1>1, <1>2, TypeCorrect, PTL DEF Spec

\* The queue of completions keeps what a hand-off promises of every step: a
\* queued completion stays, all are taken together and in order, each is
\* handled once, and none is taken once the session is over.
THEOREM CompletionsAreHandedOff == Spec => CompletionHandOff!Safety
<1> USE DEF CompletionHandOff!vars
<1>1. Init => CompletionHandOff!Init
  BY DEF Init, CompletionHandOff!Init
<1>2. TypeOK /\ Scheduled /\ [Next]_vars
         => [CompletionHandOff!Next]_(CompletionHandOff!vars)
  <2> SUFFICES ASSUME TypeOK, Scheduled, [Next]_vars
               PROVE  CompletionHandOff!Next \/ UNCHANGED <<completed, inbox, stop>>
    BY DEF CompletionHandOff!vars
  <2>1. CASE UNCHANGED vars
    BY <2>1
  <2>2. CASE Operation
    BY <2>2, OperationKinds DEF Shows, Discards, ChangesBehind
  <2>3. CASE Take \/ NotifyEditor \/ ObserveStop
    BY <2>3, SMTT(30) DEF WorkerUnchanged, Take, NotifyEditor, ObserveStop
  <2>4. CASE Parse
    <3>1. PICK c : completed' = Append(completed, c)
      BY <2>4 DEF Parse
    <3>2. /\ Len(completed') > Len(completed)
          /\ SubSeq(completed', 1, Len(completed)) = completed
      BY <3>1 DEF TypeOK
    <3> QED
      BY <2>4, <3>2
      DEF Parse, WorkerUnchanged, CompletionHandOff!Next, CompletionHandOff!Post
  <2>5. CASE Consume \/ EndPump
    BY <2>5 DEF PumpUnchanged, Consume, EndPump
  <2>6. CASE Drain
    BY <2>6 DEF Drain, PumpUnchanged, Scheduled, CompletionHandOff!Next,
                CompletionHandOff!Take
  <2>7. CASE Accept
    BY <2>7 DEF Accept, PumpUnchanged, CompletionHandOff!Next,
                CompletionHandOff!Handle
  <2>8. CASE Stop
    BY <2>8 DEF Stop, Scheduled, CompletionHandOff!Next, CompletionHandOff!Close
  <2>9. CASE Join \/ Ended
    BY <2>9 DEF Join, Ended
  <2> QED
    BY <2>1, <2>2, <2>3, <2>4, <2>5, <2>6, <2>7, <2>8, <2>9
    DEF Next, Worker, Pump
<1> QED
  BY <1>1, <1>2, TypeCorrect, ScheduledAlways, PTL
  DEF Spec, CompletionHandOff!Safety

-----------------------------------------------------------------------------
(* What is shown.                                                           *)

\* A model waits for a parse of the text it displays, no newer than the
\* document's; and the active document's text was asked for, unless the
\* document was brought to the front without asking.
Aligned ==
    /\ \A d \in Documents :
          /\ model[d].revision <= document[d].revision
          /\ model[d].pending # NoRequest => /\ model[d].pending.document = d
                                             /\ Asked(model[d].pending) = Asked(model[d])
    /\ active \notin {NoDocument} \cup neglected
          => requested[active] = Asked(document[active])

DisplayInvariant == Aligned /\ ViewDescribesRequestedUnlessNeglected

\* A request is refused only where the display describes the text already,
\* or the edits do not fit.
LEMMA RefusedIfDescribed ==
    ASSUME TypeOK, Aligned, NEW d \in Documents, NEW text \in Texts,
           document[d].revision <= text.revision, IsStale(model[d], text)
    PROVE  Asked(text) = Asked(model[d])
<1>1. /\ model[d] \in Models /\ document[d] \in Texts
      /\ model[d].pending \in Requests \cup {NoRequest}
  BY DEF TypeOK, Models
<1>2. model[d].revision <= text.revision
  BY <1>1 DEF Aligned, Models, Texts
<1>3. CASE model[d].pending = NoRequest
  BY <1>1, <1>2, <1>3 DEF IsStale, Asked, Models, Texts
<1>4. CASE model[d].pending # NoRequest
  <2>1. /\ model[d].pending.revision = model[d].revision
        /\ model[d].pending.language = model[d].language
    BY <1>4 DEF Aligned, Asked
  <2> QED BY <1>1, <1>2, <1>4, <2>1 DEF IsStale, Asked, Models, Texts
<1> QED BY <1>3, <1>4

\* A document that is shown displays what was asked for.
LEMMA ShownIsDescribed ==
    ASSUME TypeOK, DisplayInvariant, NEW d \in Documents, NEW text \in Texts,
           NEW edited \in BOOLEAN, Shows(d, text, edited)
    PROVE  DisplayInvariant'
<1> DEFINE request == [serial |-> operations', document |-> d,
                       revision |-> text.revision, language |-> text.language]
<1>1. /\ Refresh(d, text, edited) /\ UNCHANGED neglected
      /\ document' = [document EXCEPT ![d] = text]
      /\ requested' = [requested EXCEPT ![d] = Asked(text)]
      /\ document[d].revision <= text.revision
  BY DEF Shows, Show
<1>2. /\ text.revision \in Nat
      /\ model[d].revision \in Nat /\ document[d].revision \in Nat
      /\ model[d].revision <= document[d].revision
  BY DEF TypeOK, Texts, Models, DisplayInvariant, Aligned
<1>3. d \notin neglected =>
         \/ Asked(model'[d]) = Asked(text)
         \/ UNCHANGED requestVars /\ Asked(model[d]) = Asked(text)
  <2>1. CASE IsStale(model[d], text) /\ UNCHANGED requestVars
    BY <1>1, <2>1, RefusedIfDescribed DEF DisplayInvariant
  <2>2. CASE model' = [model EXCEPT ![d] = View(text, NoRequest)]
    BY <2>2 DEF TypeOK, View, Asked
  <2>3. CASE model' = [model EXCEPT ![d] = View(text, request)]
    BY <2>3 DEF TypeOK, View, Asked
  <2>4. CASE edited /\ ~EditsFit(model[d], text) /\ d \notin neglected
    <3>1. /\ d = active /\ d \in open
          /\ text.language = document[d].language
          /\ text.revision = document[d].revision + 1
      BY <2>4 DEF Shows
    <3>2. Asked(model[d]) = Asked(document[d])
      <4>1. d # NoDocument
        BY SyntaxAssumption DEF NoDocument
      <4> QED
        BY <2>4, <3>1, <4>1
        DEF DisplayInvariant, Aligned, ViewDescribesRequestedUnlessNeglected
    <3>3. /\ model[d].revision = document[d].revision
          /\ model[d].language = document[d].language
      BY <3>2 DEF Asked
    <3> QED BY <2>4, <3>1, <3>3, <1>2 DEF EditsFit
  <2> QED BY <1>1, <2>1, <2>2, <2>3, <2>4 DEF Refresh
<1>4. \A e \in Documents \ {d} : UNCHANGED <<model[e], document[e], requested[e]>>
  <2>1. \/ UNCHANGED model
        \/ model' = [model EXCEPT ![d] = View(text, NoRequest)]
        \/ model' = [model EXCEPT ![d] = View(text, request)]
    BY <1>1 DEF Refresh
  <2> QED BY <1>1, <2>1 DEF TypeOK
<1>5. document'[d] = text /\ requested'[d] = Asked(text)
  BY <1>1 DEF TypeOK
<1>6. /\ model'[d].revision <= text.revision
      /\ model'[d].pending # NoRequest
            => /\ model'[d].pending.document = d
               /\ Asked(model'[d].pending) = Asked(model'[d])
  <2>1. CASE UNCHANGED model
    BY <1>2, <1>1, <2>1 DEF DisplayInvariant, Aligned
  <2>2. CASE model' = [model EXCEPT ![d] = View(text, NoRequest)]
    <3>1. model'[d] = View(text, NoRequest)
      BY <2>2 DEF TypeOK
    <3> QED BY <3>1, <1>2 DEF View
  <2>3. CASE model' = [model EXCEPT ![d] = View(text, request)]
    <3>1. model'[d] = View(text, request)
      BY <2>3 DEF TypeOK
    <3> QED BY <3>1, <1>2 DEF View, Asked
  <2> QED BY <1>1, <2>1, <2>2, <2>3 DEF Refresh
<1>7. Aligned'
  <2>1. ASSUME NEW e \in Documents
        PROVE  /\ model'[e].revision <= document'[e].revision
               /\ model'[e].pending # NoRequest
                     => /\ model'[e].pending.document = e
                        /\ Asked(model'[e].pending) = Asked(model'[e])
    BY <1>4, <1>5, <1>6 DEF DisplayInvariant, Aligned
  <2>2. active' \notin {NoDocument} \cup neglected'
          => requested'[active'] = Asked(document'[active'])
    <3>1. CASE active' = d
      BY <1>5, <3>1
    <3>2. CASE active' # d
      <4>1. active' = active /\ active \in open \cup {NoDocument} /\ open \subseteq Documents
        BY <3>2 DEF Shows, TypeOK
      <4> QED BY <1>1, <1>4, <3>2, <4>1 DEF DisplayInvariant, Aligned
    <3> QED BY <3>1, <3>2
  <2> QED BY <2>1, <2>2 DEF Aligned
<1>8. ViewDescribesRequestedUnlessNeglected'
  <2> SUFFICES ASSUME NEW e \in open' \ neglected'
               PROVE  requested'[e] = Asked(model'[e])
    BY DEF ViewDescribesRequestedUnlessNeglected
  <2>1. e \in Documents /\ (e # d => e \in open \ neglected)
    BY <1>1 DEF Shows, TypeOK
  <2>2. CASE e = d
    BY <1>1, <1>3, <1>5, <2>2
  <2>3. CASE e # d
    BY <1>4, <2>1, <2>3 DEF DisplayInvariant, ViewDescribesRequestedUnlessNeglected
  <2> QED BY <2>2, <2>3
<1> QED BY <1>7, <1>8 DEF DisplayInvariant

\* What an operation does to the display.
LEMMA OperationDisplay ==
    ASSUME TypeOK, DisplayInvariant, Operation
    PROVE  DisplayInvariant'
<1>1. ASSUME NEW d \in Documents, Discards(d)
      PROVE  DisplayInvariant'
  <2>1. /\ model' = [model EXCEPT ![d] = InitialModel]
        /\ open' = open \ {d} /\ UNCHANGED <<document, requested>>
        /\ neglected \subseteq neglected'
    BY <1>1 DEF Discards, Discard
  <2>2. Aligned'
    <3>1. \A e \in Documents : model'[e] = IF e = d THEN InitialModel ELSE model[e]
      BY <2>1 DEF TypeOK
    <3>2. document[d].revision \in Nat
      BY DEF TypeOK, Texts
    <3>3. active' \notin {NoDocument} \cup neglected'
             => requested[active'] = Asked(document[active'])
      BY <1>1, <2>1 DEF Discards, DisplayInvariant, Aligned
    <3> QED
      BY <2>1, <3>1, <3>2, <3>3 DEF DisplayInvariant, Aligned, InitialModel
  <2>3. ViewDescribesRequestedUnlessNeglected'
    BY <2>1 DEF TypeOK, DisplayInvariant, ViewDescribesRequestedUnlessNeglected
  <2> QED BY <2>2, <2>3 DEF DisplayInvariant
<1>2. ASSUME NEW d \in Documents, NEW text \in Texts, ChangesBehind(d, text)
      PROVE  DisplayInvariant'
  <2>1. /\ document' = [document EXCEPT ![d] = text]
        /\ document[d].revision <= text.revision /\ d # active
        /\ UNCHANGED <<model, open, active, requested, neglected>>
    BY <1>2 DEF ChangesBehind
  <2>2. ASSUME NEW e \in Documents
        PROVE  model[e].revision <= document'[e].revision
    <3>1. /\ model[e].revision \in Nat /\ document[e].revision \in Nat
          /\ text.revision \in Nat
      BY DEF TypeOK, Models, Texts
    <3> QED BY <2>1, <3>1 DEF TypeOK, DisplayInvariant, Aligned
  <2>3. active \in Documents => document'[active] = document[active]
    BY <2>1 DEF TypeOK
  <2> QED
    BY <2>1, <2>2, <2>3
    DEF TypeOK, DisplayInvariant, Aligned, ViewDescribesRequestedUnlessNeglected
<1> QED BY <1>1, <1>2, ShownIsDescribed, OperationKinds

\* What accepting a completion does to it.
LEMMA AcceptDisplay ==
    ASSUME TypeOK, DisplayInvariant, Accept
    PROVE  DisplayInvariant'
<1> DEFINE c == Head(inbox)
           d == c.request.document
<1>1. c \in Completions /\ UNCHANGED documentVars
  BY DEF Accept, PumpUnchanged, TypeOK
<1>2. d \in Documents
  BY <1>1 DEF Completions, Requests
<1>3. CASE UNCHANGED model
  BY <1>1, <1>3 DEF DisplayInvariant, Aligned, ViewDescribesRequestedUnlessNeglected
<1>4. CASE Accepts(c)
  <2>1. model' = [model EXCEPT ![d] = [View(c.request, NoRequest) EXCEPT
                                         !.parsed = (c.status = "Parsed")]]
    BY <1>4 DEF Accept
  <2>2. /\ model'[d].revision = c.request.revision
        /\ model'[d].language = c.request.language
        /\ model'[d].pending = NoRequest
    BY <1>2, <2>1 DEF TypeOK, View
  <2>3. \A e \in Documents \ {d} : model'[e] = model[e]
    BY <2>1 DEF TypeOK
  <2>4. c.request = model[d].pending /\ c.request # NoRequest
    BY <1>1, <1>4 DEF Accepts, Completions, Requests, NoRequest
  <2>5. /\ c.request.revision = model[d].revision
        /\ c.request.language = model[d].language
    BY <1>2, <2>4, ZenonT(30) DEF DisplayInvariant, Aligned, Asked
  <2>6. Asked(model'[d]) = Asked(model[d]) /\ model'[d].revision = model[d].revision
    BY <2>2, <2>5 DEF Asked
  <2> QED
    BY <1>1, <1>2, <2>2, <2>3, <2>6, ZenonT(30)
    DEF DisplayInvariant, Aligned, ViewDescribesRequestedUnlessNeglected, TypeOK
<1> QED BY <1>3, <1>4 DEF Accept

LEMMA DisplayAlways == Spec => []DisplayInvariant
<1>1. Init => DisplayInvariant
  BY DEF Init, DisplayInvariant, Aligned, ViewDescribesRequestedUnlessNeglected,
         InitialModel, NoText
<1>2. TypeOK /\ DisplayInvariant /\ [Next]_vars => DisplayInvariant'
  <2> SUFFICES ASSUME TypeOK, DisplayInvariant, [Next]_vars
               PROVE  DisplayInvariant'
    OBVIOUS
  <2>1. CASE UNCHANGED <<model, documentVars>>
    BY <2>1 DEF DisplayInvariant, Aligned, ViewDescribesRequestedUnlessNeglected
  <2>2. CASE Worker \/ Consume \/ Drain \/ EndPump \/ Stop \/ Join
    BY <2>1, <2>2
    DEF Worker, WorkerUnchanged, Take, Parse, NotifyEditor, ObserveStop,
        PumpUnchanged, Consume, Drain, EndPump, Stop, Join
  <2>3. CASE Operation
    BY <2>3, OperationDisplay
  <2>4. CASE Accept
    BY <2>4, AcceptDisplay
  <2> QED BY <2>1, <2>2, <2>3, <2>4 DEF Next, Pump, Ended
<1> QED BY <1>1, <1>2, TypeCorrect, PTL DEF Spec

\* INV-syntax-view-revision-aligned, as far as it holds: what a document shows
\* describes the text its model was last asked for, whatever is queued,
\* running, cancelled or completed, if it was not brought to the front behind
\* the model's back.
THEOREM ViewIsAligned == Spec => []ViewDescribesRequestedUnlessNeglected
BY DisplayAlways, PTL DEF DisplayInvariant

-----------------------------------------------------------------------------
(* What is cancelled.                                                       *)

Numbers(list) == {list[i].request.serial : i \in DOMAIN list}
Over == Numbers(completed) \cup Numbers(inbox)

\* A request is in one place: queued for its document, running, or over.
Serialized ==
    /\ running.serial <= operations
    /\ \A n \in Over : n <= operations
    /\ running # NoRequest => running.serial \notin Over
    /\ \A d \in Documents : queued[d] # NoRequest =>
          /\ queued[d].document = d
          /\ queued[d].serial <= operations
          /\ queued[d].serial # running.serial
          /\ queued[d].serial \notin Over
          /\ \A e \in Documents \ {d} : queued[d].serial # queued[e].serial

LEMMA SerialNumbers ==
    ASSUME TypeOK
    PROVE  /\ running.serial \in Nat /\ operations \in Nat
           /\ Over \subseteq Nat \ {0}
           /\ \A d \in Documents :
                 /\ queued[d].serial \in Nat
                 /\ queued[d] # NoRequest => queued[d].serial # 0
<1>1. \A r \in Requests \cup {NoRequest} :
         r.serial \in Nat /\ (r # NoRequest => r.serial # 0)
  BY DEF Requests, NoRequest
<1>2. \A c \in Completions : c.request.serial \in Nat \ {0}
  BY DEF Completions, Requests
<1>3. /\ \A i \in DOMAIN completed : completed[i] \in Completions
      /\ \A i \in DOMAIN inbox : inbox[i] \in Completions
  BY DEF TypeOK
<1>4. Over \subseteq Nat \ {0}
  BY <1>2, <1>3 DEF Over, Numbers
<1> QED BY <1>1, <1>4 DEF TypeOK

LEMMA OperationSerialized ==
    ASSUME TypeOK, Serialized, Operation
    PROVE  Serialized'
<1> USE DEF Numbers, Over
<1>1. ASSUME NEW d \in Documents, NEW text \in Texts, NEW edited \in BOOLEAN,
             Shows(d, text, edited)
      PROVE  Serialized'
  <2> DEFINE request == [serial |-> operations', document |-> d,
                         revision |-> text.revision, language |-> text.language]
  <2>1. /\ UNCHANGED <<running, Over>>
        /\ operations \in Nat /\ operations' = operations + 1
    BY <1>1 DEF Shows, TypeOK
  <2>2. /\ running.serial \in Nat /\ Over \subseteq Nat
        /\ \A e \in Documents : queued[e].serial \in Nat
    BY SerialNumbers
  <2> HIDE DEF Over, Numbers
  <2>3. CASE UNCHANGED queued
    <3>1. running' = running /\ Over' = Over
      BY <2>1
    <3>2. running.serial <= operations /\ \A n \in Over : n <= operations
      BY DEF Serialized
    <3>3. running.serial <= operations + 1 /\ \A n \in Over : n <= operations + 1
      BY <2>1, <2>2, <3>2
    <3>4. \A e \in Documents : queued[e] # NoRequest => queued[e].serial <= operations'
      BY <2>1, <2>2 DEF Serialized
    <3> QED BY <2>1, <2>3, <3>1, <3>4, <3>3 DEF Serialized
  <2>4. CASE queued' = [queued EXCEPT ![d] = request]
    <3>1. queued'[d] = request /\ \A e \in Documents \ {d} : queued'[e] = queued[e]
      BY <2>4 DEF TypeOK
    <3>2. request.serial = operations + 1 /\ request.document = d
      BY <2>1
    <3> HIDE DEF request
    <3>3. \A n \in Over : n # operations + 1
      BY <2>1, <2>2 DEF Serialized
    <3>4. running.serial # operations + 1
      BY <2>1, <2>2 DEF Serialized
    <3>5. \A e \in Documents : queued[e].serial # operations + 1
      BY <2>1, <2>2 DEF Serialized, NoRequest
    <3>6. ASSUME NEW e \in Documents, queued'[e] # NoRequest
          PROVE  /\ queued'[e].document = e
                 /\ queued'[e].serial <= operations'
                 /\ queued'[e].serial # running.serial
                 /\ queued'[e].serial \notin Over
                 /\ \A g \in Documents \ {e} : queued'[e].serial # queued'[g].serial
      <4>1. CASE e = d
        BY <2>1, <2>2, <3>1, <3>2, <3>3, <3>4, <3>5, <4>1
      <4>2. CASE e # d
        BY <2>1, <2>2, <3>1, <3>2, <3>5, <3>6, <4>2 DEF Serialized
      <4> QED BY <4>1, <4>2
    <3>7. running.serial <= operations' /\ \A n \in Over : n <= operations'
      BY <2>1, <2>2 DEF Serialized
    <3> QED BY <2>1, <3>6, <3>7 DEF Serialized
  <2> QED BY <1>1, <2>3, <2>4 DEF Shows, Show, Refresh
<1>2. ASSUME NEW d \in Documents, Discards(d)
      PROVE  Serialized'
  <2>1. /\ UNCHANGED <<running, Over>>
        /\ operations \in Nat /\ operations' = operations + 1
    BY <1>2 DEF Discards, TypeOK
  <2>2. /\ running.serial \in Nat /\ Over \subseteq Nat
        /\ \A e \in Documents : queued[e].serial \in Nat
    BY SerialNumbers
  <2>3. /\ queued'[d] = NoRequest
        /\ \A e \in Documents \ {d} : queued'[e] = queued[e]
    BY <1>2 DEF Discards, Discard, TypeOK
  <2>4. \A e \in Documents : queued[e] # NoRequest => queued[e].serial # 0
    BY DEF TypeOK, Requests
  <2> HIDE DEF Over, Numbers
  <2> QED BY <2>1, <2>2, <2>3, <2>4 DEF Serialized, NoRequest
<1>3. ASSUME NEW d \in Documents, NEW text \in Texts, ChangesBehind(d, text)
      PROVE  Serialized'
  BY <1>3 DEF ChangesBehind, Serialized
<1> QED BY <1>1, <1>2, <1>3, OperationKinds

LEMMA WorkerSerialized ==
    ASSUME TypeOK, Serialized, Worker
    PROVE  Serialized'
<1> USE DEF WorkerUnchanged
<1>1. CASE Take
  <2>1. Lowest \in Documents /\ queued[Lowest] # NoRequest
    BY <1>1, DocumentsFound DEF Take, Queued
  <2>2. /\ running' = queued[Lowest] /\ queued'[Lowest] = NoRequest
        /\ \A d \in Documents \ {Lowest} : queued'[d] = queued[d]
        /\ UNCHANGED <<operations, Over>>
    BY <1>1, <2>1 DEF Take, TypeOK, Over, Numbers
  <2>3. \A d \in Documents \ {Lowest} :
           queued[d] # NoRequest => queued[d].serial # queued[Lowest].serial
    BY <2>1 DEF Serialized
  <2>4. \A d \in Documents : queued[d] # NoRequest => queued[d].serial # NoRequest.serial
    BY SerialNumbers DEF NoRequest
  <2> HIDE DEF Over
  <2> QED BY <2>1, <2>2, <2>3, <2>4 DEF Serialized
<1>2. CASE Parse
  <2>1. running \in Requests /\ running' = NoRequest /\ UNCHANGED <<queued, operations>>
    BY <1>2 DEF Parse, TypeOK
  <2>2. Over' = Over \cup {running.serial}
    <3>1. PICK status \in Statuses :
             completed' = Append(completed, [request |-> running, status |-> status])
      BY <1>2 DEF Parse
    <3>2. Numbers(completed') = Numbers(completed) \cup {running.serial}
      <4>1. /\ DOMAIN completed' = 1..(Len(completed) + 1)
            /\ DOMAIN completed = 1..Len(completed) /\ Len(completed) \in Nat
            /\ completed'[Len(completed) + 1] = [request |-> running, status |-> status]
            /\ \A i \in DOMAIN completed : completed'[i] = completed[i]
        BY <3>1 DEF TypeOK
      <4> QED BY <4>1 DEF Numbers
    <3> QED BY <1>2, <3>2 DEF Parse, Over
  <2>3. \A d \in Documents : queued[d] # NoRequest => queued[d].serial # NoRequest.serial
    BY SerialNumbers DEF NoRequest
  <2>4. NoRequest.serial <= operations
    BY SerialNumbers DEF NoRequest
  <2> QED BY <2>1, <2>2, <2>3, <2>4 DEF Serialized
<1>3. CASE NotifyEditor \/ ObserveStop
  BY <1>3 DEF NotifyEditor, ObserveStop, Serialized, Over, Numbers
<1> QED BY <1>1, <1>2, <1>3 DEF Worker

LEMMA SerializedAlways == Spec => []Serialized
<1>1. Init => Serialized
  BY DEF Init, Serialized, Over, Numbers, NoRequest
<1>2. TypeOK /\ Scheduled /\ Serialized /\ [Next]_vars => Serialized'
  <2> SUFFICES ASSUME TypeOK, Scheduled, Serialized, [Next]_vars
               PROVE  Serialized'
    OBVIOUS
  <2>1. ASSUME Over' \subseteq Over, UNCHANGED <<queued, running, operations>>
        PROVE  Serialized'
    BY <2>1 DEF Serialized
  <2>2. CASE Drain
    <3>1. Over' \subseteq Over
      BY <2>2 DEF Drain, Over, Numbers
    <3> QED BY <2>1, <2>2, <3>1 DEF Drain, PumpUnchanged
  <2>3. CASE Accept
    <3>1. Over' \subseteq Over
      <4>1. /\ inbox' = Tail(inbox) /\ UNCHANGED completed
            /\ inbox # <<>> /\ inbox \in Seq(Completions)
        BY <2>3 DEF Accept, TypeOK
      <4>2. \A i \in DOMAIN inbox' : i + 1 \in DOMAIN inbox /\ inbox'[i] = inbox[i + 1]
        BY <4>1
      <4> QED BY <4>1, <4>2 DEF Over, Numbers
    <3> QED BY <2>1, <2>3, <3>1 DEF Accept, PumpUnchanged
  <2>4. CASE UNCHANGED vars \/ Consume \/ EndPump \/ Stop \/ Join
    <3>1. UNCHANGED <<completed, inbox, queued, running, operations>>
      BY <2>4 DEF PumpUnchanged, Consume, EndPump, Stop, Join
    <3> QED BY <2>1, <3>1 DEF Over, Numbers
  <2> QED
    BY <2>2, <2>3, <2>4, OperationSerialized, WorkerSerialized
    DEF Next, Pump, Ended
<1> QED BY <1>1, <1>2, TypeCorrect, ScheduledAlways, PTL DEF Spec

LEMMA OperationCancels ==
    ASSUME TypeOK, Serialized, DisplayInvariant, SupersededIsCancelled, Operation
    PROVE  SupersededIsCancelled'
<1> SUFFICES ASSUME NEW r \in ({queued'[e] : e \in Documents} \cup {running'})
                                 \ {NoRequest}
             PROVE  r.serial \in cancelled' \/ r = model'[r.document].pending
  BY DEF SupersededIsCancelled
<1> USE DEF Serials
<1>1. running' = running
  BY OperationKinds DEF Shows, Discards, ChangesBehind
<1>2. ASSUME r \in {queued[e] : e \in Documents} \cup {running}
      PROVE  /\ r \in Requests /\ r.serial # 0 /\ r.document \in Documents
             /\ r.serial \in cancelled \/ r = model[r.document].pending
  BY <1>2 DEF TypeOK, Requests, SupersededIsCancelled
<1>3. ASSUME NEW d \in Documents, NEW text \in Texts, NEW edited \in BOOLEAN,
             Shows(d, text, edited)
      PROVE  r.serial \in cancelled' \/ r = model'[r.document].pending
  <2> DEFINE request == [serial |-> operations', document |-> d,
                         revision |-> text.revision, language |-> text.language]
  <2>1. CASE UNCHANGED requestVars
    BY <1>1, <1>2, <2>1
  <2>2. CASE /\ model' = [model EXCEPT ![d] = View(text, NoRequest)]
             /\ cancelled' = cancelled \cup Serials({model[d].pending})
             /\ UNCHANGED queued
    BY <1>1, <1>2, <2>2 DEF TypeOK
  <2>3. CASE /\ model' = [model EXCEPT ![d] = View(text, request)]
             /\ queued' = [queued EXCEPT ![d] = request]
             /\ cancelled' = cancelled \cup Serials(Superseded(d))
    <3>1. CASE r = request
      <4>1. model'[d] = View(text, request)
        BY <2>3 DEF TypeOK
      <4> QED BY <3>1, <4>1 DEF View
    <3>2. CASE r # request
      <4>1. r = running \/ \E e \in Documents \ {d} : r = queued[e]
        BY <1>1, <2>3, <3>2 DEF TypeOK
      <4>2. r \in Requests /\ r.serial # 0 /\ r.document \in Documents
            /\ (r.serial \in cancelled \/ r = model[r.document].pending)
        BY <4>1, <1>2
      <4>3. CASE r.document = d
        <5>1. r = running /\ r = RunningOf(d)
          BY <4>1, <4>2, <4>3 DEF Serialized, RunningOf
        <5> QED BY <2>3, <4>2, <5>1 DEF Superseded
      <4>4. CASE r.document # d
        <5>1. model'[r.document] = model[r.document]
          BY <2>3, <4>2, <4>4 DEF TypeOK
        <5> QED BY <2>3, <4>2, <5>1
      <4> QED BY <4>3, <4>4
    <3> QED BY <3>1, <3>2
  <2> QED BY <1>3, <2>1, <2>2, <2>3 DEF Shows, Show, Refresh
<1>4. ASSUME NEW d \in Documents, Discards(d)
      PROVE  r.serial \in cancelled' \/ r = model'[r.document].pending
  <2>1. /\ model' = [model EXCEPT ![d] = InitialModel]
        /\ queued' = [queued EXCEPT ![d] = NoRequest]
        /\ cancelled' = cancelled \cup Serials({queued[d], RunningOf(d)})
    BY <1>4 DEF Discards, Discard
  <2>2. r = running \/ \E e \in Documents \ {d} : r = queued[e]
    BY <1>1, <2>1 DEF TypeOK
  <2>3. r \in Requests /\ r.serial # 0 /\ r.document \in Documents
        /\ (r.serial \in cancelled \/ r = model[r.document].pending)
    BY <2>2, <1>2
  <2>4. CASE r.document = d
    <3>1. r = running /\ r = RunningOf(d)
      BY <2>2, <2>3, <2>4 DEF Serialized, RunningOf
    <3> QED BY <2>1, <2>3, <3>1
  <2>5. CASE r.document # d
    <3>1. model'[r.document] = model[r.document]
      BY <2>1, <2>3, <2>5 DEF TypeOK
    <3> QED BY <2>1, <2>3, <3>1
  <2> QED BY <2>4, <2>5
<1>5. ASSUME NEW d \in Documents, NEW text \in Texts, ChangesBehind(d, text)
      PROVE  r.serial \in cancelled' \/ r = model'[r.document].pending
  BY <1>1, <1>2, <1>5 DEF ChangesBehind
<1> QED BY <1>3, <1>4, <1>5, OperationKinds

\* The worker goes on unhindered only with the request a model waits for:
\* submit() and cancel() set the flag of every request they supersede, queued
\* or running, before the worker can take it, and accept() forgets none that
\* is still on its way.
THEOREM SupersededCancelled == Spec => []SupersededIsCancelled
<1>1. Init => SupersededIsCancelled
  BY DEF Init, SupersededIsCancelled
<1>2. TypeOK /\ Serialized /\ DisplayInvariant /\ SupersededIsCancelled /\ [Next]_vars
         => SupersededIsCancelled'
  <2> SUFFICES ASSUME TypeOK, Serialized, DisplayInvariant,
                      SupersededIsCancelled, [Next]_vars
               PROVE  SupersededIsCancelled'
    OBVIOUS
  <2>1. CASE Take
    <3>1. Lowest \in Documents /\ Queued # {}
      BY <2>1, DocumentsFound DEF Take, Queued
    <3> QED
      BY <2>1, <3>1 DEF Take, WorkerUnchanged, SupersededIsCancelled, TypeOK
  <2>2. CASE Parse
    BY <2>2 DEF Parse, WorkerUnchanged, SupersededIsCancelled
  <2>3. CASE NotifyEditor \/ ObserveStop
    BY <2>3 DEF NotifyEditor, ObserveStop, WorkerUnchanged, SupersededIsCancelled
  <2>4. CASE Accept
    <3> DEFINE c == Head(inbox)
               d == c.request.document
    <3>1. UNCHANGED <<queued, running, cancelled>>
      BY <2>4 DEF Accept, PumpUnchanged
    <3>2. CASE UNCHANGED model
      BY <3>1, <3>2 DEF SupersededIsCancelled
    <3>3. CASE Accepts(c)
      <4>1. \A e \in Documents \ {d} : model'[e] = model[e]
        BY <2>4, <3>3 DEF Accept, TypeOK
      <4>2. c.request = model[d].pending /\ c.request.serial \in Over
        BY <2>4, <3>3 DEF Accept, Accepts, TypeOK, Over, Numbers
      <4>3. ASSUME NEW r \in ({queued[e] : e \in Documents} \cup {running})
                                \ {NoRequest}
            PROVE  r.serial \in cancelled \/ r = model'[r.document].pending
        <5>1. r.serial \notin Over /\ r.document \in Documents
          BY <4>3 DEF Serialized, TypeOK, Requests
        <5>2. r.serial \in cancelled \/ r = model[r.document].pending
          BY <4>3 DEF SupersededIsCancelled
        <5> QED BY <4>1, <4>2, <5>1, <5>2
      <4> QED BY <3>1, <4>3 DEF SupersededIsCancelled
    <3> QED BY <2>4, <3>2, <3>3 DEF Accept
  <2>5. CASE UNCHANGED vars \/ Consume \/ Drain \/ EndPump \/ Stop \/ Join
    <3>1. /\ UNCHANGED <<queued, running, model>>
          /\ cancelled \subseteq cancelled'
      BY <2>5 DEF PumpUnchanged, Consume, Drain, EndPump, Stop, Join
    <3> QED BY <3>1 DEF SupersededIsCancelled
  <2> QED
    BY <2>1, <2>2, <2>3, <2>4, <2>5, OperationCancels
    DEF Next, Worker, Pump, Ended
<1> QED
  BY <1>1, <1>2, TypeCorrect, SerializedAlways, DisplayAlways, PTL DEF Spec

-----------------------------------------------------------------------------
(* What is still on its way.                                                *)

Distinct(list) == \A i, j \in DOMAIN list :
                     list[i].request.serial = list[j].request.serial => i = j

\* A request is over once, and of an open document only the one its model waits
\* for is still on its way without having been cancelled.
Once == Distinct(completed) /\ Distinct(inbox)
        /\ Numbers(completed) \cap Numbers(inbox) = {}
Opened == \A d \in open : document[d].revision > 0
Followed(r) ==
    /\ document[r.document].revision > 0
    /\ r.document \in open => r.serial \in cancelled \/ r = model[r.document].pending
AllFollowed == \A r \in Held \ {NoRequest} : Followed(r)
Following == Once /\ Opened /\ AllFollowed

LEMMA HeldTypes ==
    ASSUME TypeOK
    PROVE  \A r \in Held \ {NoRequest} :
              r \in Requests /\ r.serial # 0 /\ r.document \in Documents
<1>1. \A d \in Documents : queued[d] \in Requests \cup {NoRequest}
  BY DEF TypeOK
<1>2. /\ \A i \in DOMAIN completed : completed[i] \in Completions
      /\ \A i \in DOMAIN inbox : inbox[i] \in Completions
  BY DEF TypeOK
<1>3. \A c \in Completions : c.request \in Requests
  BY DEF Completions
<1>4. \A r \in Held \ {NoRequest} : r \in Requests
  BY <1>1, <1>2, <1>3 DEF Held, TypeOK
<1> QED BY <1>4 DEF Requests

LEMMA OnceKept ==
    ASSUME Once, UNCHANGED <<completed, inbox>>
    PROVE  Once'
BY DEF Once, Distinct, Numbers

\* Where nothing new is asked for, what was followed is.
LEMMA StillFollowed ==
    ASSUME TypeOK, Following, Held' \subseteq Held \cup {NoRequest},
           UNCHANGED <<document, model>>, open' \subseteq open,
           cancelled \subseteq cancelled'
    PROVE  Opened' /\ AllFollowed'
BY DEF Following, Opened, AllFollowed, Followed

LEMMA OperationFollowed ==
    ASSUME TypeOK, Following, Operation
    PROVE  Following'
<1> USE DEF Serials
<1>1. Once'
  <2>1. UNCHANGED <<completed, inbox>>
    BY OperationKinds DEF Shows, Discards, ChangesBehind
  <2> QED BY <2>1 DEF Following, Once, Distinct, Numbers
<1>2. ASSUME NEW d \in Documents, NEW text \in Texts, NEW edited \in BOOLEAN,
             Shows(d, text, edited)
      PROVE  Opened' /\ AllFollowed'
  <2> DEFINE request == [serial |-> operations', document |-> d,
                         revision |-> text.revision, language |-> text.language]
  <2>1. /\ document'[d] = text /\ \A e \in Documents \ {d} : document'[e] = document[e]
        /\ UNCHANGED <<running, completed, inbox>>
        /\ open' \subseteq open \cup {d} /\ open \subseteq Documents
    BY <1>2 DEF Shows, Show, TypeOK
  <2>2. /\ document[d].revision \in Nat /\ text.revision \in Nat
        /\ document[d].revision <= text.revision
        /\ d \notin open => document[d].revision = 0 /\ text.revision = 1
    BY <1>2 DEF Shows, TypeOK, Texts, NoText
  <2>3. text.revision > 0
    BY <2>2 DEF Following, Opened
  <2>4. Opened'
    BY <2>1, <2>3 DEF Following, Opened
  <2>5. ASSUME NEW r \in Held' \ {NoRequest}, r \in Held
        PROVE  Followed(r)'
    <3>1. /\ r.document \in Documents /\ r.serial # 0 /\ Followed(r)
      BY <2>5, HeldTypes DEF Following, AllFollowed
    <3>2. document'[r.document].revision > 0
      BY <2>1, <2>3, <3>1 DEF Followed
    <3>3. CASE r.document # d
      <4>1. model'[r.document] = model[r.document] /\ cancelled \subseteq cancelled'
        BY <1>2, <3>1, <3>3 DEF Shows, Show, Refresh, TypeOK
      <4> QED BY <2>1, <3>1, <3>2, <3>3, <4>1 DEF Followed
    <3>4. CASE r.document = d
      <4>1. d \in open
        BY <2>2, <3>1, <3>4 DEF Followed
      <4>2. r.serial \in cancelled \/ r = model[d].pending
        BY <3>1, <3>4, <4>1 DEF Followed
      <4>3. CASE UNCHANGED requestVars
        BY <3>2, <3>4, <4>2, <4>3 DEF Followed
      <4>4. CASE cancelled' = cancelled \cup Serials({model[d].pending})
        BY <3>1, <3>2, <3>4, <4>2, <4>4 DEF Followed
      <4>5. CASE cancelled' = cancelled \cup Serials(Superseded(d))
        BY <3>1, <3>2, <3>4, <4>2, <4>5 DEF Followed, Superseded
      <4> QED BY <1>2, <4>3, <4>4, <4>5 DEF Shows, Show, Refresh
    <3> QED BY <3>3, <3>4
  <2>6. ASSUME NEW r \in Held' \ {NoRequest}, r \notin Held
        PROVE  Followed(r)'
    <3>1. PICK e \in Documents : r = queued'[e] /\ queued'[e] # queued[e]
      BY <2>1, <2>6 DEF Held
    <3>2. queued' = [queued EXCEPT ![d] = request] /\ model' = [model EXCEPT ![d] = View(text, request)]
      BY <1>2, <3>1 DEF Shows, Show, Refresh
    <3>3. r = request /\ r.document = d /\ model'[d].pending = request
      BY <3>1, <3>2 DEF TypeOK, View
    <3> QED BY <2>1, <2>3, <3>3 DEF Followed
  <2> QED BY <2>4, <2>5, <2>6 DEF AllFollowed
<1>3. ASSUME NEW d \in Documents, Discards(d)
      PROVE  Opened' /\ AllFollowed'
  <2>1. /\ model' = [model EXCEPT ![d] = InitialModel]
        /\ queued' = [queued EXCEPT ![d] = NoRequest]
        /\ cancelled \subseteq cancelled' /\ open' = open \ {d}
        /\ UNCHANGED <<document, running, completed, inbox>>
    BY <1>3 DEF Discards, Discard
  <2>2. Held' \subseteq Held \cup {NoRequest}
    BY <2>1 DEF Held, TypeOK
  <2>3. ASSUME NEW r \in Held' \ {NoRequest}
        PROVE  Followed(r)'
    <3>1. r.document \in Documents /\ Followed(r)
      BY <2>2, HeldTypes DEF Following, AllFollowed
    <3>2. r.document # d => model'[r.document] = model[r.document]
      BY <2>1, <3>1 DEF TypeOK
    <3> QED BY <2>1, <3>1, <3>2 DEF Followed
  <2> QED BY <2>1, <2>3 DEF Following, Opened, AllFollowed
<1>4. ASSUME NEW d \in Documents, NEW text \in Texts, ChangesBehind(d, text)
      PROVE  Opened' /\ AllFollowed'
  <2>1. /\ document' = [document EXCEPT ![d] = text]
        /\ document[d].revision <= text.revision
        /\ UNCHANGED <<Held, open, model, cancelled>>
    BY <1>4 DEF ChangesBehind, Held
  <2>2. document[d].revision \in Nat /\ text.revision \in Nat /\ open \subseteq Documents
    BY DEF TypeOK, Texts
  <2>3. \A e \in Documents : document[e].revision > 0 => document'[e].revision > 0
    BY <2>1, <2>2 DEF TypeOK
  <2>4. \A r \in Held \ {NoRequest} : r.document \in Documents
    BY HeldTypes
  <2> HIDE DEF Held
  <2>5. Opened'
    BY <2>1, <2>2, <2>3 DEF Following, Opened
  <2>6. \A r \in Held \ {NoRequest} : Followed(r)'
    BY <2>1, <2>3, <2>4 DEF Following, AllFollowed, Followed
  <2> QED BY <2>1, <2>5, <2>6 DEF AllFollowed
<1> QED BY <1>1, <1>2, <1>3, <1>4, OperationKinds DEF Following

LEMMA WorkerFollowed ==
    ASSUME TypeOK, Serialized, Following, Worker
    PROVE  Following'
<1> USE DEF WorkerUnchanged
<1>1. CASE Take
  <2>1. Lowest \in Documents
    BY <1>1, DocumentsFound DEF Take, Queued
  <2>2. /\ Held' \subseteq Held \cup {NoRequest}
        /\ UNCHANGED <<completed, inbox, document, model, open, cancelled>>
    BY <1>1, <2>1 DEF Take, TypeOK, Held
  <2>3. Once'
    BY <2>2 DEF Following, Once, Distinct, Numbers
  <2> QED BY <2>2, <2>3, StillFollowed DEF Following
<1>2. CASE Parse
  <2>1. running \in Requests /\ running' = NoRequest
        /\ UNCHANGED <<queued, inbox, document, model, open, cancelled>>
    BY <1>2 DEF Parse, TypeOK
  <2>2. PICK status \in Statuses :
           completed' = Append(completed, [request |-> running, status |-> status])
    BY <1>2 DEF Parse
  <2>3. /\ DOMAIN completed' = 1..(Len(completed) + 1)
        /\ DOMAIN completed = 1..Len(completed) /\ Len(completed) \in Nat
        /\ completed'[Len(completed) + 1].request = running
        /\ \A i \in DOMAIN completed : completed'[i] = completed[i]
    BY <2>2 DEF TypeOK
  <2>4. running # NoRequest /\ running.serial \notin Over
    BY <2>1 DEF Serialized, Requests, NoRequest
  <2>5. Once'
    <3>1. Distinct(completed)'
      BY <2>3, <2>4 DEF Following, Once, Distinct, Over, Numbers
    <3>2. ASSUME NEW i \in DOMAIN completed', NEW j \in DOMAIN inbox,
                 completed'[i].request.serial = inbox[j].request.serial
          PROVE  FALSE
      <4>1. CASE i \in DOMAIN completed
        BY <2>3, <3>2, <4>1 DEF Following, Once, Numbers
      <4>2. CASE i = Len(completed) + 1
        BY <2>3, <2>4, <3>2, <4>2 DEF Over, Numbers
      <4> QED BY <2>3, <4>1, <4>2
    <3>3. Numbers(completed)' \cap Numbers(inbox)' = {}
      BY <2>1, <3>2 DEF Numbers
    <3> QED BY <2>1, <3>1, <3>3 DEF Following, Once, Distinct
  <2>6. Held' \subseteq Held \cup {NoRequest}
    BY <2>1, <2>3 DEF Held
  <2> QED BY <2>1, <2>5, <2>6, StillFollowed DEF Following
<1>3. CASE NotifyEditor \/ ObserveStop
  <2>1. UNCHANGED <<Held, completed, inbox, document, model, open, cancelled>>
    BY <1>3 DEF NotifyEditor, ObserveStop, Held
  <2>2. Once'
    BY <2>1, OnceKept DEF Following
  <2>3. Held' \subseteq Held \cup {NoRequest} /\ open' \subseteq open /\ cancelled \subseteq cancelled'
    BY <2>1
  <2> QED BY <2>1, <2>2, <2>3, StillFollowed DEF Following
<1> QED BY <1>1, <1>2, <1>3 DEF Worker

\* Taking a completion from the inbox leaves none like it behind.
LEMMA InboxShrinks ==
    ASSUME TypeOK, Serialized, Following, inbox # <<>>, inbox' = Tail(inbox),
           UNCHANGED <<queued, running, completed>>
    PROVE  /\ Once' /\ Held' \subseteq Held
           /\ Head(inbox).request \in Held \ {NoRequest}
           /\ Head(inbox).request \notin Held'
<1>1. /\ inbox \in Seq(Completions) /\ 1 \in DOMAIN inbox /\ Head(inbox) = inbox[1]
      /\ \A i \in DOMAIN inbox' : /\ i + 1 \in DOMAIN inbox /\ inbox'[i] = inbox[i + 1]
                                  /\ i \in Nat /\ i + 1 # 1
  BY DEF TypeOK
<1>2. Once' /\ Held' \subseteq Held
  <2>1. Distinct(inbox)'
    BY <1>1 DEF Following, Once, Distinct
  <2>2. Numbers(inbox)' \subseteq Numbers(inbox)
    BY <1>1 DEF Numbers
  <2>3. Held' \subseteq Held
    BY <1>1 DEF Held
  <2>4. Distinct(completed)' /\ Numbers(completed)' = Numbers(completed)
    BY DEF Following, Once, Distinct, Numbers
  <2> QED BY <2>1, <2>2, <2>3, <2>4 DEF Following, Once
<1>3. Head(inbox).request \in Requests /\ Head(inbox).request.serial # 0
  <2>1. Head(inbox) \in Completions
    BY <1>1
  <2>2. Head(inbox).request \in Requests
    BY <2>1 DEF Completions
  <2> QED BY <2>2 DEF Requests
<1>4. Head(inbox).request \in Held \ {NoRequest} /\ Head(inbox).request.serial \in Numbers(inbox)
  BY <1>1, <1>3 DEF Held, Numbers, NoRequest
<1>5. ASSUME Head(inbox).request \in Held'
      PROVE  FALSE
  <2>1. CASE Head(inbox).request = running
    BY <1>3, <1>4, <2>1 DEF Serialized, Over, NoRequest
  <2>2. CASE \E e \in Documents : Head(inbox).request = queued[e]
    BY <1>3, <1>4, <2>2 DEF Serialized, Over, NoRequest
  <2>3. CASE \E i \in DOMAIN completed : Head(inbox).request = completed[i].request
    BY <1>4, <2>3 DEF Following, Once, Numbers
  <2>4. CASE \E i \in DOMAIN inbox' : Head(inbox).request = inbox'[i].request
    BY <1>1, <2>4 DEF Following, Once, Distinct
  <2> QED BY <1>5, <2>1, <2>2, <2>3, <2>4 DEF Held
<1> QED BY <1>2, <1>4, <1>5

LEMMA AcceptFollowed ==
    ASSUME TypeOK, Serialized, Following, Accept
    PROVE  /\ Following'
           /\ model' # model => /\ Accepts(Head(inbox))
                               /\ Head(inbox).request \notin Held'
<1> DEFINE c == Head(inbox)
           d == c.request.document
<1>1. /\ inbox # <<>> /\ inbox' = Tail(inbox)
      /\ UNCHANGED <<queued, running, completed, document, open, cancelled>>
  BY DEF Accept, PumpUnchanged
<1>2. /\ Once' /\ Held' \subseteq Held
      /\ c.request \in Held \ {NoRequest} /\ c.request \notin Held'
  BY <1>1, InboxShrinks
<1> HIDE DEF c
<1>3. CASE UNCHANGED model
  BY <1>1, <1>2, <1>3, StillFollowed DEF Following
<1>4. CASE Accepts(c)
  <2>1. d \in Documents /\ c.request = model[d].pending
    BY <1>2, <1>4, HeldTypes DEF Accepts
  <2>2. \A e \in Documents \ {d} : model'[e] = model[e]
    BY <1>4 DEF Accept, TypeOK, c
  <2>3. ASSUME NEW r \in Held' \ {NoRequest}
        PROVE  Followed(r)'
    <3>1. r.document \in Documents /\ Followed(r) /\ r # c.request
      BY <1>2, HeldTypes DEF Following, AllFollowed
    <3>2. CASE r.document = d
      BY <1>1, <2>1, <3>1, <3>2 DEF Followed
    <3>3. CASE r.document # d
      BY <1>1, <2>2, <3>1, <3>3 DEF Followed
    <3> QED BY <3>2, <3>3
  <2> QED BY <1>1, <1>2, <1>4, <2>3 DEF Following, Opened, AllFollowed, c
<1> QED BY <1>3, <1>4 DEF Accept, c

LEMMA FollowingAlways == Spec => []Following
<1>1. Init => Following
  <2> SUFFICES ASSUME Init PROVE Following
    OBVIOUS
  <2>1. Once /\ Opened
    BY DEF Init, Once, Opened, Distinct, Numbers
  <2>2. Held \ {NoRequest} = {}
    BY DEF Init, Held
  <2> QED BY <2>1, <2>2 DEF Following, AllFollowed
<1>2. TypeOK /\ Scheduled /\ Serialized /\ Following /\ [Next]_vars => Following'
  <2> SUFFICES ASSUME TypeOK, Scheduled, Serialized, Following, [Next]_vars
               PROVE  Following'
    OBVIOUS
  <2>1. CASE Drain
    <3>1. /\ inbox = <<>> /\ inbox' = completed /\ completed' = <<>>
          /\ UNCHANGED <<queued, running, document, model, open, cancelled>>
      BY <2>1 DEF Drain, PumpUnchanged, Scheduled
    <3>2. Once'
      BY <3>1 DEF Following, Once, Distinct, Numbers
    <3>3. Held' \subseteq Held
      BY <3>1 DEF Held
    <3> QED BY <3>1, <3>2, <3>3, StillFollowed DEF Following
  <2>2. CASE UNCHANGED vars \/ Consume \/ EndPump \/ Stop \/ Join
    <3>1. /\ UNCHANGED <<queued, running, completed, inbox, document, model, open>>
          /\ cancelled \subseteq cancelled'
      BY <2>2 DEF PumpUnchanged, Consume, EndPump, Stop, Join
    <3>2. Once' /\ Held' = Held
      BY <3>1 DEF Following, Once, Distinct, Numbers, Held
    <3> QED BY <3>1, <3>2, StillFollowed DEF Following
  <2> QED
    BY <2>1, <2>2, OperationFollowed, WorkerFollowed, AcceptFollowed
    DEF Next, Pump, Ended
<1> QED
  BY <1>1, <1>2, TypeCorrect, ScheduledAlways, SerializedAlways, PTL DEF Spec

\* The answer a model takes is the last on its way to its document: of an open
\* document every request still queued, running, completed or drained is the one its
\* model waits for or was cancelled when that was submitted, and it is over once.
THEOREM AnswersAreTheLast == Spec => AnswersComeLast
<1> DEFINE Last ==
       \A d \in Documents : model'[d] # model[d] /\ operations' = operations
          => \A r \in Held' \ {NoRequest} :
                r.document = d => r.serial \in cancelled'
<1>1. TypeOK /\ Serialized /\ Following /\ [Next]_vars => [Last]_vars
  <2> SUFFICES ASSUME TypeOK, Serialized, Following, [Next]_vars,
                      NEW d \in Documents, model'[d] # model[d],
                      operations' = operations, NEW r \in Held' \ {NoRequest},
                      r.document = d
               PROVE  r.serial \in cancelled'
    OBVIOUS
  <2>1. CASE Accept
    <3> DEFINE c == Head(inbox)
    <3>1. /\ Accepts(c) /\ c.request \notin Held' /\ Following'
          /\ UNCHANGED <<open, cancelled, queued, running, completed>>
          /\ inbox # <<>> /\ inbox' = Tail(inbox)
      BY <2>1, AcceptFollowed DEF Accept, PumpUnchanged
    <3>2. Held' \subseteq Held /\ c.request \in Held \ {NoRequest}
      BY <3>1, InboxShrinks
    <3>3. d = c.request.document
      <4>1. model' = [model EXCEPT ![c.request.document] =
                        [View(c.request, NoRequest) EXCEPT
                           !.parsed = (c.status = "Parsed")]]
        BY <2>1, <3>1 DEF Accept
      <4> QED BY <4>1 DEF TypeOK
    <3>4. d \in open /\ c.request = model[d].pending
      BY <3>1, <3>3 DEF Accepts
    <3>5. r \in Held /\ r # c.request
      BY <3>1, <3>2
    <3>6. r.serial \in cancelled
      BY <3>4, <3>5 DEF Following, AllFollowed, Followed
    <3> QED BY <3>1, <3>6
  <2>2. CASE Operation
    <3>1. operations \in Nat
      BY DEF TypeOK
    <3>2. operations' = operations + 1 \/ UNCHANGED model
      BY <2>2, OperationKinds DEF Shows, Discards, ChangesBehind
    <3> QED BY <3>1, <3>2
  <2>3. CASE UNCHANGED vars \/ Worker \/ Consume \/ Drain \/ EndPump \/ Stop \/ Join
    BY <2>3
    DEF Worker, WorkerUnchanged, Take, Parse, NotifyEditor, ObserveStop,
        PumpUnchanged, Consume, Drain, EndPump, Stop, Join
  <2> QED BY <2>1, <2>2, <2>3 DEF Next, Pump, Ended
<1> QED
  BY <1>1, TypeCorrect, SerializedAlways, FollowingAlways, PTL
  DEF Spec, AnswersComeLast
=============================================================================
