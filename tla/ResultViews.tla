----------------------------- MODULE ResultViews ------------------------------
(***************************************************************************)
(* frontend/app.js: the four result views (one-time analysis, regular      *)
(* investing, comparison, portfolio), their forms, and the runs that the   *)
(* submit handlers start.  The engine is the service that EngineClient     *)
(* implements: analysis, dca and compare share one client, and portfolio   *)
(* has one of its own, whose request ids differ in scope.                  *)
(*                                                                         *)
(* The page has one thread.  A run is the closure of one submission; every *)
(* action of it is the code between two awaits.  Analysis and dca are two  *)
(* modes of one form: they share its button, its error line and the fields *)
(* for security, dates and assumptions.                                    *)
(***************************************************************************)
EXTENDS Naturals, FiniteSets, Sequences

CONSTANTS
  Setups,       (* values of the fields that analysis and dca share        *)
  Amounts,      (* values of the fields of one view                        *)
  Ledgers,      (* transactions and date of the portfolio form             *)
  Bad,          (* the amount or ledger that fails the validation          *)
  Baskets,      (* comparisons: sequences of analyses                      *)
  Demo,         (* the analysis of the "return to demo" button             *)
  Drafts,       (* the forms that come up: defaults, restored drafts       *)
  HasAdapter,   (* is an API base configured?                              *)
  NoId,         (* no engine request                                       *)
  None,         (* no result yet                                           *)
  MaxInputs,    (* bound: what the user and the start of the page do       *)
  MaxPromises   (* bound of the engine service                             *)

ASSUME ResultViewsAssumption ==
  /\ Baskets \subseteq Seq(Setups \X Amounts)
  /\ Demo \in Setups \X Amounts
  /\ Drafts \subseteq [setup : Setups, amount : Amounts, plan : Amounts,
                       basket : Baskets, ledger : Ledgers]
  /\ HasAdapter \in BOOLEAN
  /\ MaxInputs \in Nat /\ MaxPromises \in Nat

Simulator == {"analysis", "dca"}
Views     == Simulator \union {"compare", "portfolio"}
Forms     == {"simulator", "compare", "portfolio"}
Analyses  == Setups \X Amounts
Movable   == {"dca", "portfolio"}

Continuations == {"ledger", "url"}

VARIABLES
  form,     (* the fields of the three forms                               *)
  ui,       (* the views and what renderViewState makes of them            *)
  runs,     (* the runs in the order of their submission                   *)
  lastId,   (* s7LastAnalyzeId, s4State.requestId, s5LastPortfolioRequestId *)
  starting, (* what init has not come back to yet                          *)
  moved,    (* history: views whose form changed since without an edit     *)
  inputs,   (* number of inputs so far                                     *)
  issued, owner, outcome, slot, asked   (* the engine, see EngineService   *)

pageVars   == <<form, ui, runs, lastId, starting, moved, inputs>>
engineVars == <<issued, owner, outcome, slot, asked>>
vars       == <<pageVars, engineVars>>

(* Request ids are derived from scope and content, so compare and analysis *)
(* give equal inputs the same id.                                          *)
Ids == ({"analyze", "dca"} \X Analyses) \union ({"portfolio"} \X (Ledgers \X {None}))

ASSUME NoIdAssumption == NoId \notin Ids

Engine == INSTANCE EngineService

RequestId(k, call) == <<IF k \in {"analysis", "compare"} THEN "analyze" ELSE k, call>>

-------------------------------------------------------------------------------
(* Requests                                                                *)

(* The request that a submission captures from the form, as the sequence   *)
(* of its engine requests: compare makes one for each row.                 *)
Requested(fields, k) ==
  CASE k = "analysis"  -> <<<<fields.setup, fields.amount>>>>
    [] k = "dca"       -> <<<<fields.setup, fields.plan>>>>
    [] k = "compare"   -> fields.basket
    [] k = "portfolio" -> <<<<fields.ledger, None>>>>

Fields == [setup : Setups, amount : Amounts, plan : Amounts, basket : Baskets,
           ledger : Ledgers]

RequestsOf == [k \in Views |-> {Requested(fields, k) : fields \in Fields}]
Requests   == UNION {RequestsOf[k] : k \in Views}

Valid(k, request) ==
  /\ \A i \in DOMAIN request : Bad \notin {request[i][1], request[i][2]}
  /\ k = "compare" => /\ Len(request) \in 2 .. 6
                      /\ \A i, j \in DOMAIN request : i # j => request[i] # request[j]

-------------------------------------------------------------------------------
(* The views: each operator maps the state of the page to the next one     *)

Errors == {"none", "validation", "fallback", "failure"}

FormOf(k) == IF k \in Simulator THEN "simulator" ELSE k

ActiveSimulator(mode) == IF mode = "regular" THEN "dca" ELSE "analysis"

IsActive(u, k) == k \in Simulator => k = ActiveSimulator(u.mode)

SetView(u, k, view) == [u EXCEPT !.view[k] = view]

(* The button of the form is released unless its active view is loading.   *)
RenderView(u, k) ==
  IF IsActive(u, k) /\ u.view[k].phase # "loading"
  THEN [u EXCEPT !.busy[FormOf(k)] = FALSE]
  ELSE u

SetError(u, k, text) == IF k \in Simulator THEN [u EXCEPT !.error = text] ELSE u

(* Variant with a bug: the run in flight stays current.                    *)
EditViewOnly(u, k) ==
  LET edited == SetView(u, k, [u.view[k] EXCEPT !.phase = "pending", !.error = "none"])
  IN  RenderView(IF IsActive(u, k) THEN SetError(edited, k, "none") ELSE edited, k)

(* An edit invalidates the run in flight and the result on show.           *)
EditView(u, k) ==
  LET edited == SetView(u, k, [u.view[k] EXCEPT !.seq = @ + 1, !.phase = "pending",
                                                !.error = "none"])
  IN  RenderView(IF IsActive(u, k) THEN SetError(edited, k, "none") ELSE edited, k)

BeginView(u, k) ==
  LET edited == EditView(u, k)
  IN  RenderView(SetView(edited, k, [edited.view[k] EXCEPT !.phase = "loading"]), k)

CompleteView(u, k, request, rows) ==
  RenderView(SetView(u, k, [u.view[k] EXCEPT !.request = request, !.rows = rows,
                                             !.phase = "current", !.error = "none"]), k)

FailView(u, k, phase) ==
  RenderView(SetView(u, k, [u.view[k] EXCEPT !.phase = phase,
                              !.error = IF k \in Simulator THEN u.error ELSE @]), k)

(* setBusy, by a submission and by the finally block of its run.           *)
Occupy(u, k)  == [u EXCEPT !.busy[FormOf(k)] = TRUE]
Release(u, k) == [u EXCEPT !.busy[FormOf(k)] = FALSE]

SetUnavailable(u, k, shown) ==
  IF k = "analysis" THEN [u EXCEPT !.unavailable = shown] ELSE u

Succeed(u, k, request, rows) ==
  SetUnavailable(Release(CompleteView(SetError(u, k, "none"), k, request, rows), k), k, FALSE)

(* Variant with a bug: every run saves the error line before it writes it. *)
FailSavedFirst(u, k) ==
  SetUnavailable(Release(SetError(FailView(u, k, "failed"), k, "failure"), k), k,
                 u.unavailable \/ u.view[k].request = None)

(* s7RunAnalysis saves the error line with the view before it writes the   *)
(* message to it; s7RunDca writes it first.                                *)
Fail(u, k) ==
  LET failed == IF k = "analysis" THEN SetError(FailView(u, k, "failed"), k, "failure")
                                  ELSE FailView(SetError(u, k, "failure"), k, "failed")
  IN  SetUnavailable(Release(failed, k), k, u.unavailable \/ u.view[k].request = None)

(* A loading view is invalidated before the mode changes.                  *)
SwitchMode(u, mode) ==
  LET left     == ActiveSimulator(u.mode)
      edited   == IF mode # u.mode /\ u.view[left].phase = "loading"
                  THEN EditView(u, left) ELSE u
      switched == [edited EXCEPT !.mode = mode, !.unavailable = FALSE,
                                 !.error = edited.view[ActiveSimulator(mode)].error]
  IN  RenderView(RenderView(switched, "analysis"), "dca")

-------------------------------------------------------------------------------
ViewType == [phase   : {"empty", "pending", "loading", "invalid", "failed", "current"},
             request : Requests \union {None},
             rows    : SUBSET Nat,
             seq     : Nat,
             error   : Errors]

PageType == [mode : {"one-time", "regular"}, error : Errors, unavailable : BOOLEAN,
             busy : [Forms -> BOOLEAN], view : [Views -> ViewType]]

RunType == [view : Views, seq : Nat, request : Requests, row : Nat, ready : SUBSET Nat,
            at : {"adapter", "packs", "engine", "done"}, promise : 0 .. MaxPromises,
            previous : Ids \union {NoId}]

EngineTypeOK ==
  /\ issued  \in 0 .. MaxPromises
  /\ owner   \in [Engine!Promises -> Ids \union {NoId}]
  /\ outcome \in [Engine!Promises ->
                    {"unissued", "waiting", "resolved", "rejected", "cancelled"}]
  /\ slot    \in [Ids -> Engine!Promises \union {Engine!NoPromise}]
  /\ asked   \subseteq Ids

StartTypeOK == starting \subseteq Continuations /\ moved \subseteq Movable

TypeOK ==
  /\ form   \in Fields
  /\ ui     \in PageType
  /\ runs   \in Seq(RunType)
  /\ \A n \in DOMAIN runs : /\ runs[n].request \in RequestsOf[runs[n].view]
                            /\ runs[n].row \in DOMAIN runs[n].request
                            /\ runs[n].at = "engine" => runs[n].promise # 0
  /\ lastId \in [{"analysis", "dca", "portfolio"} -> Ids \union {NoId}]
  /\ StartTypeOK
  /\ inputs \in 0 .. MaxInputs
  /\ EngineTypeOK

Init ==
  /\ form \in Drafts
  /\ ui = [mode |-> "one-time", error |-> "none", unavailable |-> FALSE,
           busy |-> [f \in Forms |-> FALSE],
           view |-> [k \in Views |-> [phase |-> "empty", request |-> None, rows |-> {},
                                      seq |-> 0, error |-> "none"]]]
  /\ runs   = <<>>
  /\ lastId = [k \in {"analysis", "dca", "portfolio"} |-> NoId]
  /\ starting = Continuations
  /\ moved  = {}
  /\ inputs = 0
  /\ Engine!Init

-------------------------------------------------------------------------------
(* Inputs of the user, and what is left of the start of the page           *)

Input == inputs < MaxInputs /\ inputs' = inputs + 1 /\ UNCHANGED engineVars

(* wireRequestEdits: a shared field belongs to both modes of the form.     *)
EditShared(setup) ==
  /\ Input
  /\ setup # form.setup
  /\ form' = [form EXCEPT !.setup = setup]
  /\ ui' = EditView(EditView(ui, "dca"), "analysis")
  /\ moved' = moved \ {"dca"}
  /\ UNCHANGED <<runs, lastId, starting>>

(* A field that only the view on show has.                                 *)
EditOwn(k, fields) ==
  /\ Input
  /\ IsActive(ui, k)
  /\ fields # form
  /\ form' = fields
  /\ ui' = EditView(ui, k)
  /\ moved' = moved \ {k}
  /\ UNCHANGED <<runs, lastId, starting>>

EditAmount(a)  == EditOwn("analysis", [form EXCEPT !.amount = a])
EditPlan(a)    == EditOwn("dca", [form EXCEPT !.plan = a])
EditBasket(b)  == EditOwn("compare", [form EXCEPT !.basket = b])
EditLedger(l)  == EditOwn("portfolio", [form EXCEPT !.ledger = l])

(* A card of the catalog writes the shared security field and invalidates  *)
(* the analysis only.                                                      *)
PickCard(setup) ==
  /\ Input
  /\ form' = [form EXCEPT !.setup = setup]
  /\ ui' = EditView(ui, "analysis")
  /\ moved' = moved \union {"dca"}
  /\ UNCHANGED <<runs, lastId, starting>>

SetMode(mode) ==
  /\ Input
  /\ ui' = SwitchMode(ui, mode)
  /\ UNCHANGED <<form, runs, lastId, starting, moved>>

FirstStage == IF HasAdapter THEN "adapter" ELSE "packs"

(* A submission invalidates, validates and starts a run.  It advances the  *)
(* sequence of the view a second time for the run.                         *)
Submitted(u, fields, k) ==
  LET request == Requested(fields, k)
      begun   == SetError(BeginView(u, k), k, "none")
  IN  \/ /\ ~Valid(k, request)
         /\ ui' = FailView(SetError(begun, k, "validation"), k, "invalid")
         /\ UNCHANGED <<runs, lastId>>
      \/ /\ Valid(k, request)
         /\ ui' = Occupy(SetView(begun, k, [begun.view[k] EXCEPT !.seq = @ + 1]), k)
         /\ runs' = Append(runs,
              [view |-> k, seq |-> begun.view[k].seq + 1, request |-> request,
               at |-> FirstStage, row |-> 1, ready |-> {}, promise |-> 0,
               previous |-> IF k \in Simulator THEN lastId[k] ELSE NoId])
         /\ lastId' = IF k = "dca" THEN [lastId EXCEPT !["dca"] = NoId] ELSE lastId

Submit(k) ==
  /\ Input
  /\ IsActive(ui, k)
  /\ ~ui.busy[FormOf(k)]
  /\ Submitted(ui, form, k)
  /\ moved' = moved \ {k}
  /\ UNCHANGED <<form, starting>>

(* The demo button of the panel that shows while no analysis is available *)
(* fills the form, in one-time mode, and submits it.                       *)
ReturnToDemo ==
  /\ Input
  /\ ui.unavailable
  /\ form' = [form EXCEPT !.setup = Demo[1], !.amount = Demo[2]]
  /\ Submitted(SwitchMode(ui, "one-time"), form', "analysis")
  /\ moved' = moved \union {"dca"}
  /\ UNCHANGED starting

(* init wires the forms before it is done.  It does not wait for the       *)
(* stored ledger, whose rows replace those of the table, or to which a     *)
(* default row is added, without an edit of the view.                      *)
RestoreLedger(l) ==
  /\ Input
  /\ "ledger" \in starting
  /\ starting' = starting \ {"ledger"}
  /\ form' = [form EXCEPT !.ledger = l]
  /\ moved' = moved \union {"portfolio"}
  /\ UNCHANGED <<ui, runs, lastId>>

(* The scenario of the address is applied after the data status has been   *)
(* fetched.  It writes shared fields and invalidates the analysis only.    *)
ApplyAnalysisUrl(setup, amount) ==
  /\ Input
  /\ "url" \in starting
  /\ starting' = starting \ {"url"}
  /\ form' = [form EXCEPT !.setup = setup, !.amount = amount]
  /\ ui' = EditView(SwitchMode(ui, "one-time"), "analysis")
  /\ moved' = moved \union {"dca"}
  /\ UNCHANGED <<runs, lastId>>

-------------------------------------------------------------------------------
(* Steps of a run                                                          *)

Run(n)   == runs[n]
Stale(n) == ui.view[Run(n).view].seq # Run(n).seq

SetRun(n, run) == runs' = [runs EXCEPT ![n] = run]

(* A run that is no longer current ends at the first await it comes back   *)
(* from.                                                                   *)
Abandon(n) ==
  /\ Stale(n)
  /\ \/ Run(n).at \in {"adapter", "packs"}
     \/ Run(n).at = "engine" /\ outcome[Run(n).promise] # "waiting"
  /\ SetRun(n, [Run(n) EXCEPT !.at = "done"])
  /\ UNCHANGED <<form, ui, lastId, starting, moved, inputs, engineVars>>

(* A row is answered or has failed: on to the next row, or the result is   *)
(* shown.  One valid row suffices.                                         *)
RowEnds(n, rows) ==
  LET k == Run(n).view
  IN  \/ /\ Run(n).row < Len(Run(n).request)
         /\ SetRun(n, [Run(n) EXCEPT !.row = @ + 1, !.ready = rows, !.at = FirstStage])
         /\ UNCHANGED ui
      \/ /\ Run(n).row = Len(Run(n).request)
         /\ SetRun(n, [Run(n) EXCEPT !.at = "done"])
         /\ ui' = IF rows # {} THEN Succeed(ui, k, Run(n).request, rows) ELSE Fail(ui, k)

Answered(n) == Run(n).ready \union {Run(n).row}

AdapterAnswers(n) ==
  /\ Run(n).at = "adapter" /\ ~Stale(n)
  /\ RowEnds(n, Answered(n))
  /\ UNCHANGED <<form, lastId, starting, moved, inputs, engineVars>>

AdapterFails(n) ==
  /\ Run(n).at = "adapter" /\ ~Stale(n)
  /\ ui' = SetError(ui, Run(n).view, "fallback")
  /\ SetRun(n, [Run(n) EXCEPT !.at = "packs",
                  !.previous = IF Run(n).view = "analysis" THEN lastId["analysis"] ELSE @])
  /\ UNCHANGED <<form, lastId, starting, moved, inputs, engineVars>>

(* The packs are missing, do not cover the range, or cannot be loaded.     *)
PacksFail(n) ==
  /\ Run(n).at = "packs" /\ ~Stale(n)
  /\ RowEnds(n, Run(n).ready)
  /\ UNCHANGED <<form, lastId, starting, moved, inputs, engineVars>>

(* Variant with a bug: the portfolio does not read it, and cancels nothing. *)
PreviousAtStart(n) == Run(n).previous

(* The request of the view that the run replaces.  Portfolio reads it when *)
(* it issues its own, analysis when it turns to the packs, dca when it     *)
(* begins; compare cancels nothing.                                        *)
Previous(n) ==
  IF Run(n).view = "portfolio" THEN lastId["portfolio"] ELSE Run(n).previous

(* The packs are there: the request is issued and the previous one of the  *)
(* view is cancelled, unless it has the same id.                           *)
Issue(n) ==
  LET id == RequestId(Run(n).view, Run(n).request[Run(n).row])
  IN  /\ Run(n).at = "packs" /\ ~Stale(n)
      /\ Engine!Place(id)
      /\ asked' = asked \union ({Previous(n)} \ {NoId, id})
      /\ SetRun(n, [Run(n) EXCEPT !.at = "engine", !.promise = issued + 1])
      /\ lastId' = IF Run(n).view = "compare" THEN lastId
                   ELSE [lastId EXCEPT ![Run(n).view] = id]
      /\ UNCHANGED <<form, ui, starting, moved, inputs>>

(* Variant with a bug: a rejection is not caught.                          *)
ReceiveResult(n) ==
  /\ Run(n).at = "engine" /\ ~Stale(n)
  /\ outcome[Run(n).promise] = "resolved"
  /\ RowEnds(n, Answered(n))
  /\ UNCHANGED <<form, lastId, starting, moved, inputs, engineVars>>

(* The promise of the engine is settled.                                   *)
Receive(n) ==
  /\ Run(n).at = "engine" /\ ~Stale(n)
  /\ outcome[Run(n).promise] # "waiting"
  /\ RowEnds(n, IF outcome[Run(n).promise] = "resolved" THEN Answered(n) ELSE Run(n).ready)
  /\ UNCHANGED <<form, lastId, starting, moved, inputs, engineVars>>

RunStep(n) == \/ Abandon(n)   \/ AdapterAnswers(n) \/ AdapterFails(n)
              \/ PacksFail(n) \/ Issue(n)          \/ Receive(n)

(* An error of the worker rejects the promises one by one.                 *)
EngineAnswers(id) == (Engine!Answer(id) \/ Engine!Withdraw(id)) /\ UNCHANGED pageVars

Next ==
  \/ \E s \in Setups : EditShared(s) \/ PickCard(s)
  \/ \E a \in Amounts : EditAmount(a) \/ EditPlan(a)
  \/ \E b \in Baskets : EditBasket(b)
  \/ \E l \in Ledgers : EditLedger(l)
  \/ \E mode \in {"one-time", "regular"} : SetMode(mode)
  \/ \E k \in Views : Submit(k)
  \/ ReturnToDemo
  \/ \E l \in Ledgers : RestoreLedger(l)
  \/ \E s \in Setups, a \in Amounts : ApplyAnalysisUrl(s, a)
  \/ \E n \in DOMAIN runs : RunStep(n)
  \/ \E id \in Ids : EngineAnswers(id)

Spec == Init /\ [][Next]_vars

(* The browser runs what it has queued, fetches end, and the engine serves *)
(* its slots (FairSpec of EngineService; no slot starves here, since each  *)
(* behaviour fills finitely many).  Nothing is assumed of the user.        *)
Fairness ==
  /\ WF_vars(\E n \in DOMAIN runs : RunStep(n))
  /\ WF_vars(\E id \in Ids : EngineAnswers(id))

FairSpec == Spec /\ Fairness

-------------------------------------------------------------------------------
(* Properties                                                              *)

IsFresh(k) == ui.view[k].phase = "current" => ui.view[k].request = Requested(form, k)

(* "Current result" is said only of a result that was calculated from the  *)
(* inputs on the form, whatever was edited, switched or submitted while it *)
(* was on its way.  Four handlers change a form without an edit of the     *)
(* view, which then is excepted until it is edited or submitted: a card of *)
(* the catalog, the demo button and the scenario of the address change the *)
(* security of regular investing, and the ledger that is restored after    *)
(* the page came up changes the portfolio.  Nothing else does.             *)
CurrentIsFresh == \A k \in Views \ moved : IsFresh(k)

(* The error line explains the view on show: a view that was rejected or   *)
(* has failed comes back with its own message after the mode was switched. *)
(* (The message of a failed analysis does not: it is saved too early.)     *)
FailureIsExplained ==
  LET k == ActiveSimulator(ui.mode)
  IN  /\ ui.view[k].phase = "invalid" => ui.error = "validation"
      /\ ui.view[k].phase = "failed" /\ k = "dca" => ui.error = "failure"
      /\ ui.view[k].phase \in {"empty", "pending", "current"} => ui.error = "none"

(* A calculation whose run was replaced is cancelled when its successor is *)
(* issued, so that at most one per panel is worth the worker's time.       *)
OlderAreCancelled ==
  \A n \in DOMAIN runs :
    /\ runs[n].view \in {"analysis", "portfolio"} /\ runs[n].promise # 0
    /\ outcome[runs[n].promise] = "waiting"
    => owner[runs[n].promise] \in asked \union {lastId[runs[n].view]}

(* A loading view does not stay so for ever: it shows a result, fails, or  *)
(* is edited.  It is stated for the views whose promises no other panel    *)
(* can displace; analysis and compare share request ids.                   *)
LoadingEnds ==
  \A k \in {"dca", "portfolio"} :
    ui.view[k].phase = "loading" ~> ui.view[k].phase # "loading"

===============================================================================
