---------------------------- MODULE SyntaxWorker ----------------------------
(***************************************************************************)
(* Highlighting off the editor thread: the worker that parses              *)
(* (src/SyntaxWorker.cpp), the per-document SyntaxModel that requests and  *)
(* accepts parses (src/SyntaxModel.cpp) and the editor that drives both    *)
(* (Editor::refreshDocumentSyntax, pumpSyntax and the operations that      *)
(* change, open, activate and close documents).                            *)
(*                                                                         *)
(* A document's text is its revision number: texts of different revisions  *)
(* differ.  Spans, trees and incremental edits are left out; a view is the *)
(* revision and language it describes and whether a parse made it.         *)
(***************************************************************************)
EXTENDS Naturals, Sequences, FiniteSets

CONSTANTS
    Documents,      \* document ids, in the order the workspace gives them out
    Languages,      \* languages a file name can stand for
    PlainText,      \* the language of a model nothing was requested of
    Sizes,          \* whether a text may exceed the limit: a set of Booleans
    CanStop,        \* whether the session may end
    MaxOperations,  \* bound: editor operations
    MaxBackground   \* bound: documents changed behind the active tab

ASSUME SyntaxAssumption ==
    /\ Documents \subseteq Nat \ {0}
    /\ Sizes \subseteq BOOLEAN
    /\ CanStop \in BOOLEAN
    /\ MaxOperations \in Nat /\ MaxBackground \in Nat

VARIABLES
    open,       \* documents open in the workspace
    active,     \* the one the active tab shows, or NoDocument
    document,   \* their text and language
    model,      \* their SyntaxModel
    requested,  \* observer: what refreshDocumentSyntax last asked of a model
    neglected,  \* observer: shown by Delete after a change behind their tab
    queued, running, completed,     \* SyntaxWorker, under its mutex
    cancelled,  \* requests whose cancel flag is set
    pc,         \* the worker's place in run()
    wake, stop,
    rpc,        \* the editor thread's place in pumpSyntax()
    inbox,      \* what drain() returned and pumpSyntax() has still to accept
    operations, background

workerVars == <<running, completed, pc>>
editorVars == <<rpc, inbox, stop>>
documentVars == <<open, active, document, requested, neglected>>
requestVars == <<model, queued, cancelled>>
countVars == <<operations, background>>
vars == <<workerVars, editorVars, documentVars, requestVars, countVars, wake>>

NoDocument == 0
AllLanguages == Languages \cup {PlainText}

\* A SyntaxParseRequest; the serial number is its identity.
Requests == [serial : Nat \ {0}, document : Documents, revision : Nat,
             language : AllLanguages]
NoRequest == [serial |-> 0]

Texts == [revision : Nat, language : AllLanguages, large : BOOLEAN]
Models == [revision : Nat, language : AllLanguages, parsed : BOOLEAN,
           pending : Requests \cup {NoRequest}]
Statuses == {"Parsed", "Fallback", "Cancelled"}
Completions == [request : Requests, status : Statuses]

NoText == [revision |-> 0, language |-> PlainText, large |-> FALSE]
InitialModel == [revision |-> 0, language |-> PlainText, parsed |-> FALSE,
                 pending |-> NoRequest]
Asked(text) == [revision |-> text.revision, language |-> text.language]

Init ==
    /\ open = {} /\ active = NoDocument
    /\ document = [d \in Documents |-> NoText]
    /\ model = [d \in Documents |-> InitialModel]
    /\ requested = [d \in Documents |-> Asked(NoText)]
    /\ neglected = {}
    /\ queued = [d \in Documents |-> NoRequest] /\ running = NoRequest
    /\ completed = <<>> /\ cancelled = {}
    /\ pc = "wait" /\ wake = FALSE /\ stop = FALSE
    /\ rpc = "idle" /\ inbox = <<>>
    /\ operations = 0 /\ background = 0

-----------------------------------------------------------------------------
(* SyntaxModel::request and SyntaxWorker::submit.                           *)

\* A request that a model will not answer again.
IsStale(m, text) ==
    LET same(r) == r.revision = text.revision /\ r.language = text.language
    IN  \/ text.revision < m.revision \/ same(m)
        \/ /\ m.pending # NoRequest
           /\ text.revision < m.pending.revision \/ same(m.pending)

\* Mutant: an edit of the displayed text is taken for one of a later text.
EditsFitNext(m, text) ==
    m.language = text.language /\ m.revision + 1 < text.revision

\* The edits lead from the displayed text to this one.
EditsFit(m, text) ==
    m.language = text.language /\ m.revision + 1 = text.revision

View(text, request) == [revision |-> text.revision, language |-> text.language,
                        parsed |-> FALSE, pending |-> request]

Serials(rs) == {r.serial : r \in rs} \ {0}
RunningOf(d) == IF running # NoRequest /\ running.document = d
                THEN running ELSE NoRequest

\* Mutant: a running parse is not cancelled.
SupersededInQueue(d) == {queued[d]}

\* What a new request for the document cancels.
Superseded(d) == {model[d].pending, queued[d], RunningOf(d)}

\* refreshDocumentSyntax: ask for a parse of the text.  A stale request and
\* edits that do not fit are refused; a text that is too large is displayed
\* and not parsed; else the request is queued in place of any other.
Refresh(d, text, edited) ==
    LET m == model[d]
        request == [serial |-> operations', document |-> d,
                    revision |-> text.revision, language |-> text.language]
    IN  \/ /\ IsStale(m, text)
           /\ UNCHANGED requestVars
        \/ /\ ~IsStale(m, text) /\ text.large
           /\ model' = [model EXCEPT ![d] = View(text, NoRequest)]
           /\ cancelled' = cancelled \cup Serials({m.pending})
           /\ UNCHANGED queued
        \/ /\ ~IsStale(m, text) /\ ~text.large /\ edited /\ ~EditsFit(m, text)
           /\ UNCHANGED requestVars
        \/ /\ ~IsStale(m, text) /\ ~text.large
           /\ edited => EditsFit(m, text)
           /\ model' = [model EXCEPT ![d] = View(text, request)]
           /\ queued' = [queued EXCEPT ![d] = request]
           /\ cancelled' = cancelled \cup Serials(Superseded(d))

-----------------------------------------------------------------------------
(* The editor's operations.  They run between pumps.                        *)

Operate == /\ rpc = "idle" /\ operations < MaxOperations
           /\ operations' = operations + 1
           /\ UNCHANGED <<workerVars, editorVars, wake>>

\* A document shows a text; its model is asked for it.
Show(d, text, edited) ==
    /\ document' = [document EXCEPT ![d] = text]
    /\ requested' = [requested EXCEPT ![d] = Asked(text)]
    /\ UNCHANGED neglected
    /\ Refresh(d, text, edited)

NextText(d, large) == [revision |-> document[d].revision + 1,
                       language |-> document[d].language, large |-> large]

\* Ids are never used again.
NewDocument == CHOOSE d \in Documents :
                  /\ document[d] = NoText
                  /\ \A e \in Documents : document[e] = NoText => d <= e
MayOpen == \E d \in Documents : document[d] = NoText

\* A document is opened in a tab of its own.  (activateDocument closes the
\* empty buffer of a new session here: that is CloseBehind, next.)
Open(language, large) ==
    /\ Operate /\ MayOpen
    /\ open' = open \cup {NewDocument} /\ active' = NewDocument
    /\ Show(NewDocument,
            [revision |-> 1, language |-> language, large |-> large], FALSE)
    /\ UNCHANGED background

\* Typing: the model gets the edits.
Edit(large) ==
    /\ Operate /\ active # NoDocument
    /\ Show(active, NextText(active, large), TRUE)
    /\ UNCHANGED <<open, active, background>>

\* What a document can become other than by typing: undo, paste, replace,
\* reload, save as, rename, or an external change or rename adopted.
Rewritings(d) ==
    LET old == document[d]
    IN  [revision : {old.revision + 1}, language : Languages, large : Sizes]
        \cup [revision : {old.revision}, language : Languages \ {old.language},
              large : {old.large}]

\* The model of the active document gets the new text alone.
Rewrite ==
    /\ Operate /\ active # NoDocument
    /\ \E text \in Rewritings(active) : Show(active, text, FALSE)
    /\ UNCHANGED <<open, active, background>>

\* The offered reload of an external change, of whichever document.
ReloadOffered(d) ==
    /\ Operate /\ d \in open \ {active}
    /\ Show(d, NextText(d, document[d].large), FALSE)
    /\ UNCHANGED <<open, active, background>>

\* A tab is shown.  (Closing the active tab is this and CloseBehind.)
Activate(d) ==
    /\ Operate /\ d \in open /\ d # active
    /\ active' = d
    /\ Show(d, document[d], FALSE)
    /\ UNCHANGED <<open, background>>

\* SyntaxWorker::cancel and the end of the document's model.
Discard(d) ==
    /\ open' = open \ {d}
    /\ model' = [model EXCEPT ![d] = InitialModel]
    /\ queued' = [queued EXCEPT ![d] = NoRequest]
    /\ cancelled' = cancelled \cup Serials({queued[d], RunningOf(d)})

\* Closing a tab behind the active one.
CloseBehind(d) ==
    /\ Operate /\ d \in open /\ d # active
    /\ Discard(d)
    /\ UNCHANGED <<active, document, requested, neglected, background>>

\* deleteActiveFile activates a neighbour and leaves its model alone.
Delete ==
    /\ Operate /\ active # NoDocument
    /\ Discard(active)
    /\ IF open = {active} THEN active' = NoDocument
                          ELSE active' \in open \ {active}
    /\ neglected' = neglected \cup
          {d \in {active'} \ {NoDocument} : requested[d] # Asked(document[d])}
    /\ UNCHANGED <<document, requested, background>>

\* The external-modification flow reloads or renames a clean document behind
\* the active tab; only the active document's model is asked.
ChangeBehind(d) ==
    /\ rpc = "idle" /\ background < MaxBackground
    /\ background' = background + 1
    /\ d \in open \ {active}
    /\ \E text \in Rewritings(d) : document' = [document EXCEPT ![d] = text]
    /\ UNCHANGED <<workerVars, editorVars, requestVars, open, active,
                   requested, neglected, operations, wake>>

Operation ==
    \/ \E language \in Languages, large \in Sizes : Open(language, large)
    \/ \E large \in Sizes : Edit(large)
    \/ Rewrite
    \/ \E d \in Documents : Activate(d) \/ ReloadOffered(d) \/ CloseBehind(d)
                            \/ ChangeBehind(d)
    \/ Delete

-----------------------------------------------------------------------------
(* SyntaxWorker::run.                                                       *)

WorkerUnchanged == UNCHANGED <<editorVars, documentVars, model, cancelled,
                               countVars>>
Queued == {d \in Documents : queued[d] # NoRequest}
Lowest == CHOOSE d \in Queued : \A e \in Queued : d <= e

\* The request of the lowest document id is taken.
Take ==
    /\ pc = "wait" /\ ~stop /\ Queued # {}
    /\ running' = queued[Lowest]
    /\ queued' = [queued EXCEPT ![Lowest] = NoRequest]
    /\ pc' = "parse"
    /\ UNCHANGED <<completed, wake>> /\ WorkerUnchanged

\* Mutant: a completion replaces those not drained yet.
ParseKeepsLast ==
    /\ pc = "parse"
    /\ \E status \in Statuses :
          completed' = <<[request |-> running, status |-> status]>>
    /\ running' = NoRequest
    /\ pc' = "notify"
    /\ UNCHANGED <<queued, wake>> /\ WorkerUnchanged

\* The parse ends and its completion is queued.  A cancelled parse may be
\* over before it looks at its flag; without a grammar, or if the parser
\* fails, the text is displayed plain.
Parse ==
    /\ pc = "parse"
    /\ \E status \in Statuses :
          /\ status = "Cancelled" => running.serial \in cancelled
          /\ completed' = Append(completed, [request |-> running,
                                             status |-> status])
    /\ running' = NoRequest
    /\ pc' = "notify"
    /\ UNCHANGED <<queued, wake>> /\ WorkerUnchanged

NotifyEditor ==
    /\ pc = "notify"
    /\ wake' = TRUE /\ pc' = "wait"
    /\ UNCHANGED <<queued, running, completed>> /\ WorkerUnchanged

ObserveStop ==
    /\ pc = "wait" /\ stop /\ pc' = "done"
    /\ UNCHANGED <<queued, running, completed, wake>> /\ WorkerUnchanged

Worker == Take \/ Parse \/ NotifyEditor \/ ObserveStop

-----------------------------------------------------------------------------
(* pumpSyntax and the destructor.                                           *)

PumpUnchanged == UNCHANGED <<pc, running, queued, cancelled, documentVars,
                             countVars, stop>>

Consume ==
    /\ rpc = "idle" /\ wake
    /\ wake' = FALSE /\ rpc' = "consumed"
    /\ PumpUnchanged /\ UNCHANGED <<completed, inbox, model>>

Drain ==
    /\ rpc = "consumed"
    /\ inbox' = completed /\ completed' = <<>>
    /\ rpc' = "accepting"
    /\ PumpUnchanged /\ UNCHANGED <<model, wake>>

\* pumpSyntax drops the completion of a closed or changed document, accept()
\* that of a cancelled or superseded request.
Accepts(c) ==
    LET d == c.request.document
        text == document[d]
    IN  /\ d \in open
        /\ Asked(text) = Asked(c.request)
        /\ c.request.serial \notin cancelled
        /\ c.request.revision >= model[d].revision
        /\ c.request = model[d].pending
        /\ c.status # "Cancelled"

Accept ==
    /\ rpc = "accepting" /\ inbox # <<>>
    /\ LET c == Head(inbox)
       IN  model' = IF Accepts(c)
                    THEN [model EXCEPT ![c.request.document] =
                            [View(c.request, NoRequest) EXCEPT
                               !.parsed = (c.status = "Parsed")]]
                    ELSE model
    /\ inbox' = Tail(inbox)
    /\ PumpUnchanged /\ UNCHANGED <<completed, rpc, wake>>

\* Mutant: the wake byte is consumed after the completions were taken.
EndPumpConsumes ==
    /\ rpc = "accepting" /\ inbox = <<>>
    /\ rpc' = "idle" /\ wake' = FALSE
    /\ PumpUnchanged /\ UNCHANGED <<completed, inbox, model>>

EndPump ==
    /\ rpc = "accepting" /\ inbox = <<>>
    /\ rpc' = "idle"
    /\ PumpUnchanged /\ UNCHANGED <<completed, inbox, model, wake>>

Pump == Consume \/ Drain \/ Accept \/ EndPump

\* The destructor cancels what is running and queued.
Stop ==
    /\ CanStop /\ rpc = "idle"
    /\ stop' = TRUE /\ rpc' = "joining"
    /\ cancelled' = cancelled
          \cup Serials({running} \cup {queued[d] : d \in Documents})
    /\ UNCHANGED <<workerVars, inbox, documentVars, model, queued, countVars,
                   wake>>

Join ==
    /\ rpc = "joining" /\ pc = "done" /\ rpc' = "joined"
    /\ UNCHANGED <<workerVars, inbox, stop, documentVars, requestVars,
                   countVars, wake>>

Ended == rpc = "joined" /\ UNCHANGED vars

Next == Operation \/ Worker \/ Pump \/ Stop \/ Join \/ Ended

\* The thread is scheduled and the event loop serves a ready wake.
Fairness == WF_vars(Worker) /\ WF_vars(Pump) /\ WF_vars(Join)

Spec == Init /\ [][Next]_vars /\ Fairness

-----------------------------------------------------------------------------
(* Properties.                                                              *)

\* Type invariant.
TypeOK ==
    /\ open \subseteq Documents /\ active \in open \cup {NoDocument}
    /\ document \in [Documents -> Texts]
    /\ model \in [Documents -> Models]
    /\ requested \in [Documents -> [revision : Nat, language : AllLanguages]]
    /\ neglected \subseteq Documents
    /\ queued \in [Documents -> Requests \cup {NoRequest}]
    /\ running \in Requests \cup {NoRequest}
    /\ completed \in Seq(Completions) /\ inbox \in Seq(Completions)
    /\ cancelled \in SUBSET Nat
    /\ pc \in {"wait", "parse", "notify", "done"}
    /\ pc = "parse" <=> running # NoRequest
    /\ rpc \in {"idle", "consumed", "accepting", "joining", "joined"}
    /\ wake \in BOOLEAN /\ stop \in BOOLEAN
    /\ operations \in Nat /\ background \in Nat

\* A completion that is queued will be drained: the wake byte is set, about
\* to be set, or consumed by a drain that has not taken the queue yet.
NoLostCompletion ==
    completed # <<>> => wake \/ pc = "notify" \/ rpc = "consumed"

Held == {queued[d] : d \in Documents} \cup {running}
        \cup {completed[i].request : i \in DOMAIN completed}
        \cup {inbox[i].request : i \in DOMAIN inbox}

\* A model that waits for a parse waits for one that will come: its request
\* is queued, running or completed and nobody cancelled it, however
\* requests, parses, closings and pumps interleave.  (A document changed
\* behind its tab waits for nothing; it is asked again when it is shown,
\* unless Delete shows it.)
PendingIsServed ==
    \A d \in open \ neglected :
       LET pending == model[d].pending
       IN  /\ pending # NoRequest /\ ~stop
           /\ Asked(document[d]) = Asked(pending)
           => pending \in Held /\ pending.serial \notin cancelled

\* The worker never goes on unhindered with a request whose document has
\* another one pending or is closed.
SupersededIsCancelled ==
    \A r \in ({queued[d] : d \in Documents} \cup {running}) \ {NoRequest} :
       r.serial \in cancelled \/ r = model[r.document].pending

\* INV-syntax-view-revision-aligned (SyntaxModel.h:258): the view describes
\* what was last asked for, however parses of older texts complete, except for
\* a document changed behind its tab and then shown without being asked for.
ViewDescribesRequestedUnlessNeglected ==
    \A d \in open \ neglected : requested[d] = Asked(model[d])

\* The answer a model takes is the last on its way to the document: what is still
\* queued, running, completed or drained of older requests was cancelled when they
\* were superseded, and no answer comes twice, so that nothing shown is replaced by
\* an older parse (submit, SyntaxModel::request and accept).
AnswersComeLast ==
    [][\A d \in Documents : model'[d] # model[d] /\ operations' = operations
          => \A r \in Held' \ {NoRequest} :
                r.document = d => r.serial \in cancelled']_vars

\* Once the operations end every document asked for is displayed from its
\* parse, or plain if it has none: nothing stays pending.
Settles ==
    <>[](stop \/ \A d \in open \ neglected :
             \/ model[d].pending = NoRequest
             \/ Asked(model[d].pending) # Asked(document[d]))

\* The destructor's join returns.
Joined == stop ~> rpc = "joined"

\* No request is forgotten: while a model waits its parse is under way, in the
\* end nothing waits, and the destructor's join returns (request, run, drain).
EveryRequestIsServed == []PendingIsServed /\ Settles /\ Joined

\* The queue of completions is a hand-off.
CompletionHandOff == INSTANCE HandOff WITH box <- completed, hand <- inbox,
                                           closed <- stop
ImplementsHandOff == CompletionHandOff!Spec
=============================================================================
