--------------------------- MODULE ResultViewsProofs ---------------------------
(***************************************************************************)
(* Proofs about ResultViews, for every form, basket and number of inputs:  *)
(* type correctness, that the submit buttons follow the view on show, that *)
(* a result is called current only for the inputs on the form, that the    *)
(* error line explains the view on show, and that calculations which were  *)
(* replaced are cancelled.                                                 *)
(***************************************************************************)
EXTENDS ResultViews, TLAPS

-------------------------------------------------------------------------------
(* What the operators of the page do to it                                 *)

(* Views and forms besides those of k are untouched.                       *)
Frame(u, v, k) ==
  /\ v \in PageType
  /\ \A j \in Views : j # k => v.view[j] = u.view[j]
  /\ \A f \in Forms : f # FormOf(k) => v.busy[f] = u.busy[f]

LEMMA FormOfType == \A k \in Views : FormOf(k) \in Forms
BY DEF FormOf, Forms, Views, Simulator

LEMMA RenderViewDoes ==
  ASSUME NEW u \in PageType, NEW k \in Views
  PROVE  LET v == RenderView(u, k)
         IN  /\ Frame(u, v, k)
             /\ v.view = u.view /\ v.mode = u.mode /\ v.error = u.error
             /\ v.busy[FormOf(k)] =
                  IF IsActive(u, k) /\ u.view[k].phase # "loading"
                  THEN FALSE ELSE u.busy[FormOf(k)]
BY FormOfType DEF RenderView, PageType, Frame

LEMMA SetErrorDoes ==
  ASSUME NEW u \in PageType, NEW k \in Views, NEW text \in Errors
  PROVE  LET v == SetError(u, k, text)
         IN  /\ v \in PageType /\ v.view = u.view /\ v.mode = u.mode /\ v.busy = u.busy
             /\ v.error = IF k \in Simulator THEN text ELSE u.error
BY DEF SetError, PageType

LEMMA SetViewDoes ==
  ASSUME NEW u \in PageType, NEW k \in Views, NEW view \in ViewType
  PROVE  LET v == SetView(u, k, view)
         IN  /\ Frame(u, v, k) /\ v.view[k] = view
             /\ v.mode = u.mode /\ v.busy = u.busy /\ v.error = u.error
BY DEF SetView, PageType, Frame

LEMMA EditedView ==
  ASSUME NEW view \in ViewType
  PROVE  LET x == [view EXCEPT !.seq = @ + 1, !.phase = "pending", !.error = "none"]
         IN  x \in ViewType /\ x.seq = view.seq + 1 /\ x.phase = "pending" /\ x.error = "none"
<1> DEFINE a == [view EXCEPT !.seq = @ + 1]
           b == [a EXCEPT !.phase = "pending"]
           c == [b EXCEPT !.error = "none"]
<1>1. a \in ViewType /\ a.seq = view.seq + 1
  BY DEF ViewType
<1> HIDE DEF a
<1>2. b \in ViewType /\ b.seq = a.seq /\ b.phase = "pending"
  BY <1>1 DEF ViewType
<1> HIDE DEF b
<1>3. c \in ViewType /\ c.seq = b.seq /\ c.phase = b.phase /\ c.error = "none"
  BY <1>2 DEF ViewType, Errors
<1> QED BY <1>1, <1>2, <1>3 DEF a, b, c

LEMMA EditViewDoes ==
  ASSUME NEW u \in PageType, NEW k \in Views
  PROVE  LET v == EditView(u, k)
         IN  /\ Frame(u, v, k) /\ v.mode = u.mode
             /\ v.view[k].seq = u.view[k].seq + 1 /\ v.view[k].phase = "pending"
             /\ v.view[k].error = "none"
             /\ v.error = IF IsActive(u, k) /\ k \in Simulator THEN "none" ELSE u.error
             /\ v.busy[FormOf(k)] = IF IsActive(u, k) THEN FALSE ELSE u.busy[FormOf(k)]
<1> DEFINE x == [u.view[k] EXCEPT !.seq = @ + 1, !.phase = "pending", !.error = "none"]
           e == SetView(u, k, x)
           w == IF IsActive(u, k) THEN SetError(e, k, "none") ELSE e
<1>1. x \in ViewType /\ x.seq = u.view[k].seq + 1 /\ x.phase = "pending" /\ x.error = "none"
  <2>1. u.view[k] \in ViewType
    BY DEF PageType
  <2> QED BY <2>1, EditedView
<1> HIDE DEF x
<1>2. Frame(u, e, k) /\ e.view[k] = x /\ e.mode = u.mode /\ e.busy = u.busy /\ e.error = u.error
  BY <1>1, SetViewDoes
<1> HIDE DEF e
<1>3. /\ w \in PageType /\ w.view = e.view /\ w.mode = e.mode /\ w.busy = e.busy
      /\ w.error = IF IsActive(u, k) /\ k \in Simulator THEN "none" ELSE e.error
  BY <1>2, SetErrorDoes DEF Errors, Frame
<1> HIDE DEF w
<1>4. EditView(u, k) = RenderView(w, k)
  BY DEF EditView, e, w, x
<1>5. IsActive(w, k) <=> IsActive(u, k)
  BY <1>2, <1>3 DEF IsActive
<1>6. /\ Frame(w, RenderView(w, k), k)
      /\ RenderView(w, k).view = w.view /\ RenderView(w, k).mode = w.mode
      /\ RenderView(w, k).error = w.error
      /\ RenderView(w, k).busy[FormOf(k)] =
           IF IsActive(w, k) /\ w.view[k].phase # "loading" THEN FALSE ELSE w.busy[FormOf(k)]
  BY <1>3, RenderViewDoes
<1>7. RenderView(w, k).error = IF IsActive(u, k) /\ k \in Simulator THEN "none" ELSE u.error
  BY <1>2, <1>3, <1>6
<1>8. RenderView(w, k).view[k].error = "none"
  BY <1>1, <1>2, <1>3, <1>6
<1>9. /\ Frame(u, RenderView(w, k), k) /\ RenderView(w, k).mode = u.mode
      /\ RenderView(w, k).view[k].seq = u.view[k].seq + 1
      /\ RenderView(w, k).view[k].phase = "pending"
  BY <1>1, <1>2, <1>3, <1>6 DEF Frame
<1>10. RenderView(w, k).busy[FormOf(k)] = IF IsActive(u, k) THEN FALSE ELSE u.busy[FormOf(k)]
  BY <1>1, <1>2, <1>3, <1>5, <1>6
<1> QED BY <1>4, <1>7, <1>8, <1>9, <1>10

LEMMA BeginViewDoes ==
  ASSUME NEW u \in PageType, NEW k \in Views
  PROVE  LET v == BeginView(u, k)
         IN  /\ Frame(u, v, k) /\ v.mode = u.mode
             /\ v.view[k].seq = u.view[k].seq + 1 /\ v.view[k].phase = "loading"
             /\ v.error = IF IsActive(u, k) /\ k \in Simulator THEN "none" ELSE u.error
             /\ v.busy[FormOf(k)] = IF IsActive(u, k) THEN FALSE ELSE u.busy[FormOf(k)]
<1> DEFINE d == EditView(u, k)
           x == [d.view[k] EXCEPT !.phase = "loading"]
           e == SetView(d, k, x)
           v == RenderView(e, k)
<1>1. /\ Frame(u, d, k) /\ d.mode = u.mode /\ d.view[k].seq = u.view[k].seq + 1
      /\ d.error = IF IsActive(u, k) /\ k \in Simulator THEN "none" ELSE u.error
      /\ d.busy[FormOf(k)] = IF IsActive(u, k) THEN FALSE ELSE u.busy[FormOf(k)]
  BY EditViewDoes
<1> HIDE DEF d
<1>2. x \in ViewType /\ x.seq = d.view[k].seq /\ x.phase = "loading"
  <2>1. d.view[k] \in ViewType
    BY <1>1 DEF Frame, PageType
  <2> QED BY <2>1 DEF ViewType
<1> HIDE DEF x
<1>3. Frame(d, e, k) /\ e.view[k] = x /\ e.mode = d.mode /\ e.busy = d.busy /\ e.error = d.error
  BY <1>1, <1>2, SetViewDoes DEF Frame
<1> HIDE DEF e
<1>4. /\ Frame(e, v, k) /\ v.view = e.view /\ v.mode = e.mode /\ v.error = e.error
      /\ v.busy[FormOf(k)] = e.busy[FormOf(k)]
  BY <1>2, <1>3, RenderViewDoes DEF Frame
<1>5. BeginView(u, k) = v
  BY DEF BeginView, v, e, x, d
<1> HIDE DEF v
<1> QED BY <1>1, <1>2, <1>3, <1>4, <1>5 DEF Frame

LEMMA CompleteViewDoes ==
  ASSUME NEW u \in PageType, NEW k \in Views, NEW request \in Requests, NEW rows \in SUBSET Nat
  PROVE  LET v == CompleteView(u, k, request, rows)
         IN  /\ Frame(u, v, k) /\ v.mode = u.mode
             /\ v.view[k].seq = u.view[k].seq /\ v.view[k].phase = "current"
             /\ v.view[k].request = request /\ v.view[k].error = "none" /\ v.error = u.error
<1> DEFINE a == [u.view[k] EXCEPT !.request = request]
           b == [a EXCEPT !.rows = rows]
           c == [b EXCEPT !.phase = "current"]
           x == [c EXCEPT !.error = "none"]
           e == SetView(u, k, x)
           v == RenderView(e, k)
<1>1. a \in ViewType /\ a.seq = u.view[k].seq /\ a.request = request
  <2>1. u.view[k] \in ViewType
    BY DEF PageType
  <2> QED BY <2>1 DEF ViewType
<1> HIDE DEF a
<1>2. b \in ViewType /\ b.seq = a.seq /\ b.request = a.request
  BY <1>1 DEF ViewType
<1> HIDE DEF b
<1>3. c \in ViewType /\ c.seq = b.seq /\ c.request = b.request /\ c.phase = "current"
  BY <1>2 DEF ViewType
<1> HIDE DEF c
<1>4. x \in ViewType /\ x.seq = c.seq /\ x.request = c.request /\ x.phase = c.phase
      /\ x.error = "none"
  BY <1>3 DEF ViewType, Errors
<1> HIDE DEF x
<1>5. Frame(u, e, k) /\ e.view[k] = x /\ e.mode = u.mode /\ e.error = u.error
  BY <1>4, SetViewDoes
<1> HIDE DEF e
<1>6. Frame(e, v, k) /\ v.view = e.view /\ v.mode = e.mode /\ v.error = e.error
  BY <1>5, RenderViewDoes DEF Frame
<1>7. CompleteView(u, k, request, rows) = v
  BY DEF CompleteView, v, e, x, c, b, a
<1> QED BY <1>1, <1>2, <1>3, <1>4, <1>5, <1>6, <1>7 DEF Frame

LEMMA FailViewDoes ==
  ASSUME NEW u \in PageType, NEW k \in Views, NEW phase \in {"invalid", "failed"}
  PROVE  LET v == FailView(u, k, phase)
         IN  /\ Frame(u, v, k) /\ v.mode = u.mode
             /\ v.view[k].seq = u.view[k].seq /\ v.view[k].phase = phase
             /\ v.busy[FormOf(k)] = IF IsActive(u, k) THEN FALSE ELSE u.busy[FormOf(k)]
<1> DEFINE a == [u.view[k] EXCEPT !.phase = phase]
           x == [a EXCEPT !.error = IF k \in Simulator THEN u.error ELSE @]
           e == SetView(u, k, x)
           v == RenderView(e, k)
<1>1. a \in ViewType /\ a.seq = u.view[k].seq /\ a.phase = phase
  <2>1. u.view[k] \in ViewType
    BY DEF PageType
  <2> QED BY <2>1 DEF ViewType
<1> HIDE DEF a
<1>2. x \in ViewType /\ x.seq = a.seq /\ x.phase = a.phase
  <2>1. u.error \in Errors
    BY DEF PageType
  <2> QED BY <1>1, <2>1 DEF ViewType
<1> HIDE DEF x
<1>3. Frame(u, e, k) /\ e.view[k] = x /\ e.mode = u.mode /\ e.busy = u.busy
  BY <1>2, SetViewDoes
<1> HIDE DEF e
<1>4. /\ Frame(e, v, k) /\ v.view = e.view /\ v.mode = e.mode
      /\ v.busy[FormOf(k)] =
           IF IsActive(e, k) /\ e.view[k].phase # "loading" THEN FALSE ELSE e.busy[FormOf(k)]
  BY <1>3, RenderViewDoes DEF Frame
<1>5. FailView(u, k, phase) = v
  BY DEF FailView, v, e, x, a
<1>6. IsActive(e, k) <=> IsActive(u, k)
  BY <1>3 DEF IsActive
<1> QED BY <1>1, <1>2, <1>3, <1>4, <1>5, <1>6 DEF Frame

(* The line is saved with the view.                                        *)
LEMMA FailViewSaves ==
  ASSUME NEW u \in PageType, NEW k \in Views, NEW phase \in {"invalid", "failed"}
  PROVE  /\ FailView(u, k, phase).error = u.error
         /\ k \in Simulator => FailView(u, k, phase).view[k].error = u.error
<1> DEFINE x == [u.view[k] EXCEPT !.phase = phase, !.error = IF k \in Simulator THEN u.error ELSE @]
           e == SetView(u, k, x)
<1>1. x \in ViewType /\ (k \in Simulator => x.error = u.error)
  <2>1. u.error \in Errors /\ u.view[k] \in ViewType
    BY DEF PageType
  <2> QED BY <2>1 DEF ViewType
<1> HIDE DEF x
<1>2. e \in PageType /\ e.view[k] = x /\ e.error = u.error
  BY <1>1, SetViewDoes DEF Frame
<1>3. FailView(u, k, phase) = RenderView(e, k)
  BY DEF FailView, e, x
<1> HIDE DEF e
<1>4. RenderView(e, k).view = e.view /\ RenderView(e, k).error = e.error
  BY <1>2, RenderViewDoes
<1> QED BY <1>1, <1>2, <1>3, <1>4

LEMMA ReleaseDoes ==
  ASSUME NEW u \in PageType, NEW k \in Views
  PROVE  LET v == Release(u, k)
         IN  /\ Frame(u, v, k) /\ v.view = u.view /\ v.mode = u.mode /\ v.error = u.error
             /\ v.busy[FormOf(k)] = FALSE
BY FormOfType DEF Release, PageType, Frame

LEMMA OccupyDoes ==
  ASSUME NEW u \in PageType, NEW k \in Views
  PROVE  LET v == Occupy(u, k)
         IN  /\ Frame(u, v, k) /\ v.view = u.view /\ v.mode = u.mode /\ v.error = u.error
             /\ v.busy[FormOf(k)] = TRUE
BY FormOfType DEF Occupy, PageType, Frame

LEMMA SetUnavailableDoes ==
  ASSUME NEW u \in PageType, NEW k \in Views, NEW shown \in BOOLEAN
  PROVE  LET v == SetUnavailable(u, k, shown)
         IN  /\ v \in PageType /\ v.view = u.view /\ v.mode = u.mode /\ v.busy = u.busy
             /\ v.error = u.error
BY DEF SetUnavailable, PageType

LEMMA SucceedDoes ==
  ASSUME NEW u \in PageType, NEW k \in Views, NEW request \in Requests, NEW rows \in SUBSET Nat
  PROVE  LET v == Succeed(u, k, request, rows)
         IN  /\ Frame(u, v, k) /\ v.mode = u.mode /\ v.busy[FormOf(k)] = FALSE
             /\ v.view[k].seq = u.view[k].seq /\ v.view[k].phase = "current"
             /\ v.view[k].request = request
<1> DEFINE a == SetError(u, k, "none")
           b == CompleteView(a, k, request, rows)
           c == Release(b, k)
           v == SetUnavailable(c, k, FALSE)
<1>1. a \in PageType /\ a.view = u.view /\ a.mode = u.mode /\ a.busy = u.busy
  BY SetErrorDoes DEF Errors
<1> HIDE DEF a
<1>2. /\ Frame(a, b, k) /\ b.mode = a.mode /\ b.view[k].seq = a.view[k].seq
      /\ b.view[k].phase = "current" /\ b.view[k].request = request
  BY <1>1, CompleteViewDoes
<1> HIDE DEF b
<1>3. Frame(b, c, k) /\ c.view = b.view /\ c.mode = b.mode /\ c.busy[FormOf(k)] = FALSE
  BY <1>2, ReleaseDoes DEF Frame
<1> HIDE DEF c
<1>4. v \in PageType /\ v.view = c.view /\ v.mode = c.mode /\ v.busy = c.busy
  BY <1>3, SetUnavailableDoes DEF Frame
<1>5. Succeed(u, k, request, rows) = v
  BY DEF Succeed, v, c, b, a
<1> HIDE DEF v
<1> QED BY <1>1, <1>2, <1>3, <1>4, <1>5 DEF Frame

LEMMA SucceedClears ==
  ASSUME NEW u \in PageType, NEW k \in Views, NEW request \in Requests, NEW rows \in SUBSET Nat
  PROVE  /\ Succeed(u, k, request, rows).view[k].error = "none"
         /\ k \in Simulator => Succeed(u, k, request, rows).error = "none"
         /\ k \notin Simulator => Succeed(u, k, request, rows).error = u.error
<1> DEFINE a == SetError(u, k, "none")
           b == CompleteView(a, k, request, rows)
           c == Release(b, k)
           v == SetUnavailable(c, k, FALSE)
<1>1. a \in PageType /\ a.error = IF k \in Simulator THEN "none" ELSE u.error
  BY SetErrorDoes DEF Errors
<1> HIDE DEF a
<1>2. b \in PageType /\ b.view[k].error = "none" /\ b.error = a.error
  BY <1>1, CompleteViewDoes DEF Frame
<1> HIDE DEF b
<1>3. c \in PageType /\ c.view = b.view /\ c.error = b.error
  BY <1>2, ReleaseDoes DEF Frame
<1> HIDE DEF c
<1>4. v.view = c.view /\ v.error = c.error
  BY <1>3, SetUnavailableDoes
<1>5. Succeed(u, k, request, rows) = v
  BY DEF Succeed, v, c, b, a
<1> HIDE DEF v
<1> QED BY <1>1, <1>2, <1>3, <1>4, <1>5

LEMMA FailDoes ==
  ASSUME NEW u \in PageType, NEW k \in Views
  PROVE  LET v == Fail(u, k)
         IN  /\ Frame(u, v, k) /\ v.mode = u.mode /\ v.busy[FormOf(k)] = FALSE
             /\ v.view[k].seq = u.view[k].seq /\ v.view[k].phase = "failed"
             /\ v.error = IF k \in Simulator THEN "failure" ELSE u.error
             /\ k = "dca" => v.view[k].error = "failure"
<1> DEFINE a == FailView(u, k, "failed")
           b == SetError(u, k, "failure")
           c == FailView(b, k, "failed")
           d == IF k = "analysis" THEN SetError(a, k, "failure") ELSE c
           e == Release(d, k)
           shown == u.unavailable \/ u.view[k].request = None
           v == SetUnavailable(e, k, shown)
<1>1. /\ Frame(u, a, k) /\ a.mode = u.mode /\ a.view[k].seq = u.view[k].seq
      /\ a.view[k].phase = "failed" /\ a.error = u.error
  BY FailViewDoes, FailViewSaves
<1>2. /\ b \in PageType /\ b.view = u.view /\ b.mode = u.mode /\ b.busy = u.busy
      /\ b.error = IF k \in Simulator THEN "failure" ELSE u.error
  BY SetErrorDoes DEF Errors
<1> HIDE DEF a, b
<1>3. /\ Frame(b, c, k) /\ c.mode = b.mode /\ c.view[k].seq = b.view[k].seq
      /\ c.view[k].phase = "failed"
  BY <1>2, FailViewDoes
<1>9. /\ c.error = b.error
      /\ k \in Simulator => c.view[k].error = b.error
  BY <1>2, FailViewSaves
<1> HIDE DEF c
<1>4. /\ d \in PageType /\ d.mode = u.mode /\ d.view[k].seq = u.view[k].seq
      /\ d.view[k].phase = "failed"
      /\ \A j \in Views : j # k => d.view[j] = u.view[j]
      /\ \A f \in Forms : f # FormOf(k) => d.busy[f] = u.busy[f]
      /\ d.error = IF k \in Simulator THEN "failure" ELSE u.error
      /\ k = "dca" => d.view[k].error = "failure"
  <2>1. CASE k = "analysis"
    <3>1. /\ d \in PageType /\ d.view = a.view /\ d.mode = a.mode /\ d.busy = a.busy
          /\ d.error = "failure" /\ k \in Simulator
      BY <1>1, <2>1, SetErrorDoes DEF Frame, Errors, Simulator
    <3> QED BY <1>1, <2>1, <3>1 DEF Frame
  <2>2. CASE k # "analysis"
    BY <1>2, <1>3, <1>9, <2>2 DEF Frame, Simulator
  <2> QED BY <2>1, <2>2
<1> HIDE DEF d
<1>5. /\ Frame(d, e, k) /\ e.view = d.view /\ e.mode = d.mode /\ e.busy[FormOf(k)] = FALSE
      /\ e.error = d.error
  BY <1>4, ReleaseDoes
<1> HIDE DEF e
<1>6. shown \in BOOLEAN
  BY DEF PageType
<1>7. /\ v \in PageType /\ v.view = e.view /\ v.mode = e.mode /\ v.busy = e.busy
      /\ v.error = e.error
  BY <1>5, <1>6, SetUnavailableDoes DEF Frame
<1>8. Fail(u, k) = v
  BY DEF Fail, v, shown, e, d, c, b, a
<1> HIDE DEF v
<1> QED BY <1>4, <1>5, <1>7, <1>8 DEF Frame

-------------------------------------------------------------------------------
(* The button and the view on show                                         *)

(* Only the view on show is ever loading, and the button says so.          *)
PageInv(u) ==
  \A k \in Views : /\ u.view[k].phase = "loading" => IsActive(u, k)
                   /\ IsActive(u, k) => (u.busy[FormOf(k)] <=> u.view[k].phase = "loading")

(* A change of one view and its form keeps that.                           *)
LEMMA PageStep ==
  ASSUME NEW u \in PageType, NEW v, NEW k \in Views, PageInv(u), Frame(u, v, k), v.mode = u.mode,
         IsActive(u, k) => (v.busy[FormOf(k)] <=> v.view[k].phase = "loading"),
         ~IsActive(u, k) => v.busy[FormOf(k)] = u.busy[FormOf(k)] /\ v.view[k].phase # "loading"
  PROVE  PageInv(v)
<1>1. \A j \in Views : IsActive(v, j) <=> IsActive(u, j)
  BY DEF IsActive
<1>2. SUFFICES ASSUME NEW j \in Views, j # k
               PROVE  /\ v.view[j].phase = "loading" => IsActive(u, j)
                      /\ IsActive(u, j) => (v.busy[FormOf(j)] <=> v.view[j].phase = "loading")
  BY <1>1 DEF PageInv
<1>3. CASE FormOf(j) # FormOf(k)
  BY <1>2, <1>3, FormOfType DEF PageInv, Frame
<1>4. CASE FormOf(j) = FormOf(k)
  <2>1. j \in Simulator /\ k \in Simulator
    BY <1>2, <1>4 DEF FormOf, Views, Simulator
  <2>2. IsActive(u, j) <=> ~IsActive(u, k)
    BY <1>2, <2>1 DEF IsActive, Simulator, ActiveSimulator
  <2> QED BY <1>2, <1>4, <2>2 DEF PageInv, Frame
<1> QED BY <1>3, <1>4

-------------------------------------------------------------------------------
(* The error line                                                          *)

(* What the error line says of a view of the simulator in this phase.      *)
Explains(k, phase, error) ==
  /\ phase = "invalid" => error = "validation"
  /\ phase = "failed" /\ k = "dca" => error = "failure"
  /\ phase \in {"empty", "pending", "current"} => error = "none"

(* The line explains the view on show, and what is saved with a view       *)
(* explains that view when it comes back.                                  *)
ErrorInv(u) ==
  \A k \in Simulator : /\ Explains(k, u.view[k].phase, u.view[k].error)
                       /\ IsActive(u, k) => Explains(k, u.view[k].phase, u.error)

(* A change of one view and of the line that goes with it keeps that.      *)
LEMMA ErrorStep ==
  ASSUME NEW u \in PageType, NEW v, NEW k \in Views, ErrorInv(u), Frame(u, v, k), v.mode = u.mode,
         k \in Simulator => /\ Explains(k, v.view[k].phase, v.view[k].error)
                            /\ IsActive(u, k) => Explains(k, v.view[k].phase, v.error),
         v.error = u.error \/ (k \in Simulator /\ IsActive(u, k))
  PROVE  ErrorInv(v)
<1>1. \A j \in Views : IsActive(v, j) <=> IsActive(u, j)
  BY DEF IsActive
<1>2. SUFFICES ASSUME NEW j \in Simulator, j # k
               PROVE  /\ Explains(j, v.view[j].phase, v.view[j].error)
                      /\ IsActive(u, j) => Explains(j, v.view[j].phase, v.error)
  BY <1>1 DEF ErrorInv, Views
<1>3. v.view[j] = u.view[j]
  BY <1>2 DEF Frame, Views
<1>4. k \in Simulator /\ IsActive(u, k) => ~IsActive(u, j)
  BY <1>2 DEF IsActive, Simulator, ActiveSimulator
<1> QED BY <1>2, <1>3, <1>4 DEF ErrorInv

-------------------------------------------------------------------------------
(* The inductive invariant                                                 *)

(* The request is the one on the form, or the form has moved since.        *)
Suits(k, request) == request = Requested(form, k) \/ k \in moved

(* A run never is ahead of its view, no two runs of a view have the same   *)
(* number, and the one that is not stale is the one that the view is       *)
(* loading, for the inputs on the form.                                    *)
RunsInv ==
  /\ \A n \in DOMAIN runs : runs[n].seq <= ui.view[runs[n].view].seq
  /\ \A m, n \in DOMAIN runs :
       runs[m].view = runs[n].view /\ runs[m].seq = runs[n].seq => m = n
  /\ \A n \in DOMAIN runs : ~Stale(n) /\ runs[n].at # "done" =>
       /\ ui.view[runs[n].view].phase = "loading"
       /\ Suits(runs[n].view, runs[n].request)

IInv == TypeOK /\ PageInv(ui) /\ RunsInv /\ CurrentIsFresh

(* A view is as it was, and so are the inputs it was calculated from; or   *)
(* it was invalidated.                                                     *)
Kept(k)   == /\ ui'.view[k] = ui.view[k]
             /\ \A request : Suits(k, request) => Suits(k, request)'
Edited(k) == ui'.view[k].seq > ui.view[k].seq /\ ui'.view[k].phase # "current"

LEMMA TypedFields ==
  ASSUME TypeOK
  PROVE  /\ ui \in PageType /\ runs \in Seq(RunType)
         /\ \A k \in Views : ui.view[k] \in ViewType /\ ui.view[k].seq \in Nat
         /\ \A n \in DOMAIN runs : /\ runs[n] \in RunType /\ runs[n].view \in Views
                                   /\ runs[n].seq \in Nat /\ runs[n].request \in Requests
                                   /\ FormOf(runs[n].view) \in Forms
<1>1. ui \in PageType /\ runs \in Seq(RunType)
  BY DEF TypeOK
<1>2. \A k \in Views : ui.view[k] \in ViewType /\ ui.view[k].seq \in Nat
  BY <1>1 DEF PageType, ViewType
<1>3. \A n \in DOMAIN runs : runs[n] \in RunType
  BY <1>1
<1>4. \A n \in DOMAIN runs : /\ runs[n].view \in Views /\ runs[n].seq \in Nat
                            /\ runs[n].request \in Requests
  BY <1>3 DEF RunType
<1> QED BY <1>1, <1>2, <1>3, <1>4, FormOfType

LEMMA CurrentSuits ==
  CurrentIsFresh <=> \A k \in Views : ui.view[k].phase = "current" => Suits(k, ui.view[k].request)
BY DEF CurrentIsFresh, IsFresh, Suits

(* An input that starts no run.                                            *)
LEMMA InputKeeps ==
  ASSUME TypeOK, ui' \in PageType, RunsInv, CurrentIsFresh, UNCHANGED runs,
         \A k \in Views : Kept(k) \/ Edited(k)
  PROVE  RunsInv' /\ CurrentIsFresh'
<1>1. \A n \in DOMAIN runs : runs[n].view \in Views /\ runs[n].seq \in Nat
  BY TypedFields
<1>2. \A k \in Views : ui.view[k].seq \in Nat /\ ui'.view[k].seq \in Nat
  BY TypedFields DEF PageType, ViewType
<1>3. CurrentIsFresh'
  BY CurrentSuits DEF Kept, Edited, CurrentIsFresh, IsFresh, Suits
<1>4. \A n \in DOMAIN runs : runs[n].seq <= ui'.view[runs[n].view].seq
  BY <1>1, <1>2 DEF RunsInv, Kept, Edited
<1>5. ASSUME NEW n \in DOMAIN runs, ui'.view[runs[n].view].seq = runs[n].seq, runs[n].at # "done"
      PROVE  /\ ui'.view[runs[n].view].phase = "loading"
             /\ Suits(runs[n].view, runs[n].request)'
  <2>1. Kept(runs[n].view)
    BY <1>1, <1>2, <1>5 DEF RunsInv, Edited
  <2> QED BY <1>5, <2>1 DEF RunsInv, Kept, Stale, Run, Suits
<1> QED BY <1>3, <1>4, <1>5 DEF RunsInv, Stale, Run, Suits

(* A submission that starts a run.                                         *)
LEMMA RunStarts ==
  ASSUME TypeOK, ui' \in PageType, RunsInv, CurrentIsFresh, NEW run \in RunType,
         runs' = Append(runs, run), run.seq = ui'.view[run.view].seq,
         ui'.view[run.view].phase = "loading", run.request = Requested(form', run.view),
         Edited(run.view), \A k \in Views : Kept(k) \/ Edited(k)
  PROVE  RunsInv' /\ CurrentIsFresh'
<1> DEFINE last == Len(runs) + 1
<1>1. /\ DOMAIN runs' = DOMAIN runs \union {last} /\ last \notin DOMAIN runs
      /\ runs'[last] = run /\ \A n \in DOMAIN runs : runs'[n] = runs[n]
  BY DEF TypeOK
<1> HIDE DEF last
<1>2. \A n \in DOMAIN runs : runs[n].view \in Views /\ runs[n].seq \in Nat
  BY TypedFields
<1>3. \A k \in Views : ui.view[k].seq \in Nat /\ ui'.view[k].seq \in Nat
  BY TypedFields DEF PageType, ViewType
<1>4. run.view \in Views /\ run.seq \in Nat
  BY DEF RunType
<1>5. CurrentIsFresh'
  BY CurrentSuits DEF Kept, Edited, CurrentIsFresh, IsFresh, Suits
<1>6. \A n \in DOMAIN runs' : runs'[n].seq <= ui'.view[runs'[n].view].seq
  <2>1. \A n \in DOMAIN runs : runs[n].seq <= ui'.view[runs[n].view].seq
    BY <1>2, <1>3 DEF RunsInv, Kept, Edited
  <2>2. run.seq <= ui'.view[run.view].seq
    BY <1>4
  <2> QED BY <1>1, <2>1, <2>2
<1>7. \A n \in DOMAIN runs : runs[n].view = run.view => runs[n].seq < run.seq
  BY <1>2, <1>3, <1>4 DEF RunsInv, Edited
<1>8. \A m, n \in DOMAIN runs' :
        runs'[m].view = runs'[n].view /\ runs'[m].seq = runs'[n].seq => m = n
  BY <1>1, <1>2, <1>4, <1>7 DEF RunsInv
<1>9. ASSUME NEW n \in DOMAIN runs', ui'.view[runs'[n].view].seq = runs'[n].seq,
             runs'[n].at # "done"
      PROVE  /\ ui'.view[runs'[n].view].phase = "loading"
             /\ Suits(runs[n].view, runs[n].request)'
  <2>1. CASE n = last
    BY <1>1, <2>1 DEF Suits
  <2>2. CASE n \in DOMAIN runs
    <3>1. Kept(runs[n].view)
      BY <1>1, <1>2, <1>3, <1>9, <2>2 DEF RunsInv, Edited
    <3>2. runs'[n] = runs[n] /\ ~Stale(n) /\ runs[n].at # "done"
      BY <1>1, <1>9, <2>2, <3>1 DEF Kept, Stale, Run
    <3>3. /\ ui.view[runs[n].view].phase = "loading"
          /\ Suits(runs[n].view, runs[n].request)
      BY <2>2, <3>2 DEF RunsInv
    <3>4. /\ ui'.view[runs'[n].view].phase = "loading"
          /\ runs'[n].request = Requested(form', runs'[n].view) \/ runs'[n].view \in moved'
      BY <3>1, <3>2, <3>3 DEF Kept, Suits
    <3> QED BY <3>4 DEF Suits
  <2> QED BY <1>1, <2>1, <2>2
<1> QED BY <1>5, <1>6, <1>8, <1>9 DEF RunsInv, Stale, Run, Suits

(* A step of a run that leaves the views as they are.                      *)
LEMMA RunGoesOn ==
  ASSUME TypeOK, RunsInv, CurrentIsFresh, NEW n \in DOMAIN runs, NEW run,
         SetRun(n, run), run.view = runs[n].view, run.seq = runs[n].seq,
         run.request = runs[n].request, runs[n].at = "done" => run.at = "done",
         ui'.view = ui.view, UNCHANGED <<form, moved>>
  PROVE  RunsInv' /\ CurrentIsFresh'
<1>1. /\ DOMAIN runs' = DOMAIN runs /\ runs'[n] = run
      /\ \A m \in DOMAIN runs : m # n => runs'[m] = runs[m]
  BY DEF SetRun, TypeOK
<1>2. CurrentIsFresh'
  BY DEF CurrentIsFresh, IsFresh, Requested
<1>3. \A m \in DOMAIN runs : /\ runs'[m].view = runs[m].view /\ runs'[m].seq = runs[m].seq
                             /\ runs'[m].request = runs[m].request
                             /\ runs[m].at = "done" => runs'[m].at = "done"
  BY <1>1
<1>4. \A m \in DOMAIN runs : Suits(runs[m].view, runs[m].request)' =
                             Suits(runs[m].view, runs[m].request)
  BY <1>3 DEF Suits, Requested
<1>5. \A m \in DOMAIN runs : runs'[m].seq <= ui'.view[runs'[m].view].seq
  BY <1>3 DEF RunsInv
<1>6. \A l, m \in DOMAIN runs :
        runs'[l].view = runs'[m].view /\ runs'[l].seq = runs'[m].seq => l = m
  BY <1>3 DEF RunsInv
<1>7. ASSUME NEW m \in DOMAIN runs, ui'.view[runs'[m].view].seq = runs'[m].seq,
             runs'[m].at # "done"
      PROVE  /\ ui'.view[runs'[m].view].phase = "loading"
             /\ Suits(runs[m].view, runs[m].request)'
  BY <1>3, <1>4, <1>7 DEF RunsInv, Stale, Run
<1> QED BY <1>1, <1>2, <1>5, <1>6, <1>7 DEF RunsInv, Stale, Run, Suits

(* The last step of a current run.                                         *)
LEMMA RunEnds ==
  ASSUME TypeOK, ui' \in PageType, RunsInv, CurrentIsFresh, NEW n \in DOMAIN runs, NEW run,
         SetRun(n, run), run.view = runs[n].view, run.seq = runs[n].seq, run.at = "done",
         ~Stale(n), runs[n].at # "done", UNCHANGED <<form, moved>>,
         \A k \in Views : k # run.view => ui'.view[k] = ui.view[k],
         ui'.view[run.view].seq = ui.view[run.view].seq,
         ui'.view[run.view].phase = "current" => ui'.view[run.view].request = runs[n].request
  PROVE  RunsInv' /\ CurrentIsFresh'
<1>1. /\ DOMAIN runs' = DOMAIN runs /\ runs'[n] = run
      /\ \A m \in DOMAIN runs : m # n => runs'[m] = runs[m]
  BY DEF SetRun, TypeOK
<1>2. \A m \in DOMAIN runs : runs[m].view \in Views
  BY TypedFields
<1>3. \A m \in DOMAIN runs : runs'[m].view = runs[m].view /\ runs'[m].seq = runs[m].seq
  BY <1>1
<1>4. \A k \in Views : ui'.view[k].seq = ui.view[k].seq
  BY <1>2
<1>5. \A k : \A request : Suits(k, request)' = Suits(k, request)
  BY DEF Suits, Requested
<1>6. Suits(runs[n].view, runs[n].request)
  BY DEF RunsInv
<1>7. CurrentIsFresh'
  <2>1. SUFFICES ASSUME NEW k \in Views, ui'.view[k].phase = "current"
                 PROVE  Suits(k, ui.view[k].request)'
    BY DEF CurrentIsFresh, IsFresh, Suits
  <2>2. CASE k = run.view
    BY <1>5, <1>6, <2>1, <2>2
  <2>3. CASE k # run.view
    BY <1>5, <2>1, <2>3, CurrentSuits
  <2> QED BY <2>2, <2>3
<1>8. \A m \in DOMAIN runs : runs'[m].seq <= ui'.view[runs'[m].view].seq
  BY <1>2, <1>3, <1>4 DEF RunsInv
<1>9. \A l, m \in DOMAIN runs :
        runs'[l].view = runs'[m].view /\ runs'[l].seq = runs'[m].seq => l = m
  BY <1>3 DEF RunsInv
<1>10. ASSUME NEW m \in DOMAIN runs, ui'.view[runs'[m].view].seq = runs'[m].seq,
              runs'[m].at # "done"
       PROVE  /\ ui'.view[runs'[m].view].phase = "loading"
              /\ Suits(runs[m].view, runs[m].request)'
  <2>1. m # n
    BY <1>1, <1>10
  <2>2. runs[m].view # run.view
    BY <1>1, <1>2, <1>4, <1>10, <2>1 DEF RunsInv, Stale, Run
  <2> QED BY <1>1, <1>2, <1>5, <1>10, <2>1, <2>2 DEF RunsInv, Stale, Run
<1> QED BY <1>1, <1>7, <1>8, <1>9, <1>10 DEF RunsInv, Stale, Run, Suits

-------------------------------------------------------------------------------
(* What a change of mode and a submission do to the page                   *)

(* A view is as it was, or was invalidated.                                *)
KeptOrEdited(u, v) ==
  \A k \in Views : \/ v.view[k] = u.view[k]
                   \/ v.view[k].seq > u.view[k].seq /\ v.view[k].phase = "pending"

LEMMA SwitchModeDoes ==
  ASSUME NEW u \in PageType, PageInv(u), NEW mode \in {"one-time", "regular"}
  PROVE  LET v == SwitchMode(u, mode)
         IN  /\ v \in PageType /\ v.mode = mode /\ PageInv(v) /\ KeptOrEdited(u, v)
             /\ ErrorInv(u) => ErrorInv(v)
<1> DEFINE left == ActiveSimulator(u.mode)
           e == IF mode # u.mode /\ u.view[left].phase = "loading" THEN EditView(u, left) ELSE u
           a == [e EXCEPT !.mode = mode]
           b == [a EXCEPT !.unavailable = FALSE]
           c == [b EXCEPT !.error = e.view[ActiveSimulator(mode)].error]
           d == RenderView(c, "analysis")
           v == RenderView(d, "dca")
<1>1. left \in Views /\ left \in Simulator /\ IsActive(u, left)
  BY DEF ActiveSimulator, Simulator, Views, IsActive
<1>2. \A k \in Views : u.view[k].seq \in Nat
  BY DEF PageType, ViewType
<1>3. /\ e \in PageType /\ e.mode = u.mode /\ PageInv(e) /\ KeptOrEdited(u, e)
      /\ mode # u.mode => e.view[left].phase # "loading"
      /\ ErrorInv(u) => ErrorInv(e)
  <2>1. CASE e = u
    <3>1. mode # u.mode => e.view[left].phase # "loading"
      <4>1. mode # u.mode /\ u.view[left].phase = "loading" => e.view[left].phase = "pending"
        BY <1>1, EditViewDoes
      <4> QED BY <2>1, <4>1
    <3> HIDE DEF e, left
    <3> QED BY <2>1, <3>1 DEF KeptOrEdited
  <2>2. CASE e = EditView(u, left)
    <3> HIDE DEF e, left
    <3>1. /\ Frame(u, e, left) /\ e.mode = u.mode /\ e.view[left].seq = u.view[left].seq + 1
          /\ e.view[left].phase = "pending" /\ e.busy[FormOf(left)] = FALSE
      <4>1. /\ Frame(u, EditView(u, left), left) /\ EditView(u, left).mode = u.mode
            /\ EditView(u, left).view[left].seq = u.view[left].seq + 1
            /\ EditView(u, left).view[left].phase = "pending"
            /\ EditView(u, left).busy[FormOf(left)] = FALSE
        BY <1>1, EditViewDoes
      <4> QED BY <2>2, <4>1
    <3>2. PageInv(e)
      BY <1>1, <3>1, PageStep
    <3>3. e.view[left].error = "none" /\ e.error = "none"
      <4>1. EditView(u, left).view[left].error = "none" /\ EditView(u, left).error = "none"
        BY <1>1, EditViewDoes
      <4> QED BY <2>2, <4>1
    <3>4. ErrorInv(u) => ErrorInv(e)
      BY <1>1, <3>1, <3>3, ErrorStep DEF Explains
    <3> QED BY <1>2, <3>1, <3>2, <3>4, <1>1 DEF Frame, KeptOrEdited
  <2> QED BY <2>1, <2>2
<1> HIDE DEF e
<1>4. /\ a \in PageType /\ a.mode = mode /\ a.view = e.view /\ a.busy = e.busy
  BY <1>3 DEF PageType
<1> HIDE DEF a
<1>5. b \in PageType /\ b.mode = a.mode /\ b.view = a.view /\ b.busy = a.busy
  BY <1>4 DEF PageType
<1> HIDE DEF b
<1>6. /\ c \in PageType /\ c.mode = b.mode /\ c.view = b.view /\ c.busy = b.busy
      /\ c.error = e.view[ActiveSimulator(mode)].error
  <2>1. ActiveSimulator(mode) \in Views
    BY DEF ActiveSimulator, Views, Simulator
  <2>2. e.view[ActiveSimulator(mode)].error \in Errors
    BY <1>3, <2>1 DEF PageType, ViewType
  <2> QED BY <1>5, <2>2 DEF PageType
<1> HIDE DEF c
<1>7. /\ Frame(c, d, "analysis") /\ d.view = c.view /\ d.mode = c.mode /\ d.error = c.error
      /\ d.busy["simulator"] = IF IsActive(c, "analysis") /\ c.view["analysis"].phase # "loading"
                               THEN FALSE ELSE c.busy["simulator"]
  BY <1>6, RenderViewDoes DEF Views, Simulator, FormOf
<1> HIDE DEF d
<1>8. /\ Frame(d, v, "dca") /\ v.view = d.view /\ v.mode = d.mode /\ v.error = d.error
      /\ v.busy["simulator"] = IF IsActive(d, "dca") /\ d.view["dca"].phase # "loading"
                               THEN FALSE ELSE d.busy["simulator"]
  BY <1>7, RenderViewDoes DEF Views, Simulator, FormOf, Frame
<1>9. SwitchMode(u, mode) = v
  BY DEF SwitchMode, v, d, c, b, a, e, left
<1> HIDE DEF v
<1>10. PageInv(v)
  <2>1. /\ v.view = e.view /\ v.mode = mode
        /\ \A f \in Forms : f # "simulator" => v.busy[f] = e.busy[f]
    BY <1>4, <1>5, <1>6, <1>7, <1>8 DEF Frame, FormOf, Simulator
  <2>2. ASSUME NEW k \in Views, k \notin Simulator
        PROVE  /\ IsActive(v, k) /\ IsActive(e, k)
               /\ v.busy[FormOf(k)] <=> v.view[k].phase = "loading"
    BY <1>3, <2>1, <2>2 DEF PageInv, IsActive, FormOf, Views, Simulator, Forms
  <2>3. ASSUME NEW k \in Simulator
        PROVE  v.view[k].phase = "loading" => k = left /\ mode = u.mode
    <3>1. e.view[k].phase = "loading" => k = left
      BY <1>3, <2>3 DEF PageInv, IsActive, Views, left
    <3> QED BY <1>3, <2>1, <3>1
  <2>4. ASSUME NEW k \in Simulator
        PROVE  v.view[k].phase = "loading" => IsActive(v, k)
    BY <2>1, <2>3, <2>4 DEF IsActive, left
  <2>5. ASSUME NEW k \in Simulator, IsActive(v, k)
        PROVE  v.busy["simulator"] <=> v.view[k].phase = "loading"
    <3>1. CASE v.view[k].phase = "loading"
      <4>1. e.busy["simulator"] /\ IsActive(e, k)
        BY <1>3, <2>1, <2>3, <2>5, <3>1 DEF PageInv, IsActive, FormOf, Views, left
      <4> QED BY <1>4, <1>5, <1>6, <1>7, <1>8, <2>1, <2>5, <3>1, <4>1
              DEF IsActive, Simulator, ActiveSimulator
    <3>2. CASE v.view[k].phase # "loading"
      BY <1>4, <1>5, <1>6, <1>7, <1>8, <2>1, <2>5, <3>2 DEF IsActive, Simulator, ActiveSimulator
    <3> QED BY <3>1, <3>2
  <2> QED BY <2>2, <2>4, <2>5 DEF PageInv, FormOf, Views
<1>11. ASSUME ErrorInv(u)
       PROVE  ErrorInv(v)
  <2>1. /\ v.view = e.view /\ v.mode = mode /\ ErrorInv(e)
        /\ v.error = e.view[ActiveSimulator(mode)].error
    BY <1>3, <1>4, <1>5, <1>6, <1>7, <1>8, <1>11
  <2>2. \A k \in Simulator : IsActive(v, k) => k = ActiveSimulator(mode)
    BY <2>1 DEF IsActive
  <2> QED BY <2>1, <2>2 DEF ErrorInv
<1> QED BY <1>3, <1>4, <1>5, <1>6, <1>7, <1>8, <1>9, <1>10, <1>11 DEF Frame, KeptOrEdited

(* A submission that does not pass the validation.                         *)
Rejected(u, k) ==
  FailView(SetError(SetError(BeginView(u, k), k, "none"), k, "validation"), k, "invalid")

(* A submission that starts a run.                                         *)
Started(u, k) ==
  LET begun == SetError(BeginView(u, k), k, "none")
  IN  Occupy(SetView(begun, k, [begun.view[k] EXCEPT !.seq = @ + 1]), k)

LEMMA RejectedDoes ==
  ASSUME NEW u \in PageType, PageInv(u), NEW k \in Views, IsActive(u, k)
  PROVE  LET v == Rejected(u, k)
         IN  /\ Frame(u, v, k) /\ v.mode = u.mode /\ PageInv(v)
             /\ v.view[k].seq > u.view[k].seq /\ v.view[k].phase = "invalid"
             /\ v.error = IF k \in Simulator THEN "validation" ELSE u.error
             /\ k \in Simulator => v.view[k].error = "validation"
<1> DEFINE a == BeginView(u, k)
           b == SetError(a, k, "none")
           c == SetError(b, k, "validation")
           v == FailView(c, k, "invalid")
<1>1. /\ Frame(u, a, k) /\ a.mode = u.mode /\ a.view[k].seq = u.view[k].seq + 1
      /\ a.error = IF k \in Simulator THEN "none" ELSE u.error
  BY BeginViewDoes
<1> HIDE DEF a
<1>2. /\ b \in PageType /\ b.view = a.view /\ b.mode = a.mode /\ b.busy = a.busy
      /\ k \notin Simulator => b.error = a.error
  BY <1>1, SetErrorDoes DEF Frame, Errors
<1> HIDE DEF b
<1>3. /\ c \in PageType /\ c.view = b.view /\ c.mode = b.mode /\ c.busy = b.busy
      /\ c.error = IF k \in Simulator THEN "validation" ELSE b.error
  BY <1>2, SetErrorDoes DEF Errors
<1> HIDE DEF c
<1>4. IsActive(c, k)
  BY <1>1, <1>2, <1>3 DEF IsActive
<1>5. /\ Frame(c, v, k) /\ v.mode = c.mode /\ v.view[k].seq = c.view[k].seq
      /\ v.view[k].phase = "invalid" /\ v.busy[FormOf(k)] = FALSE
  BY <1>3, <1>4, FailViewDoes
<1>10. /\ v.error = c.error
       /\ k \in Simulator => v.view[k].error = c.error
  BY <1>3, FailViewSaves
<1>6. Rejected(u, k) = v
  BY DEF Rejected, v, c, b, a
<1> HIDE DEF v
<1>7. Frame(u, v, k) /\ v.mode = u.mode
  BY <1>1, <1>2, <1>3, <1>5 DEF Frame
<1>8. PageInv(v)
  BY <1>5, <1>7, PageStep
<1>9. v.view[k].seq > u.view[k].seq
  <2>1. u.view[k].seq \in Nat
    BY DEF PageType, ViewType
  <2> QED BY <1>1, <1>2, <1>3, <1>5, <2>1
<1> QED BY <1>1, <1>2, <1>3, <1>5, <1>6, <1>7, <1>8, <1>9, <1>10

LEMMA StartedDoes ==
  ASSUME NEW u \in PageType, PageInv(u), NEW k \in Views, IsActive(u, k)
  PROVE  LET v == Started(u, k)
         IN  /\ Frame(u, v, k) /\ v.mode = u.mode /\ PageInv(v)
             /\ v.view[k].seq = SetError(BeginView(u, k), k, "none").view[k].seq + 1
             /\ v.view[k].seq > u.view[k].seq /\ v.view[k].phase = "loading"
             /\ k \notin Simulator => v.error = u.error
<1> DEFINE a == BeginView(u, k)
           b == SetError(a, k, "none")
           x == [b.view[k] EXCEPT !.seq = @ + 1]
           c == SetView(b, k, x)
           v == Occupy(c, k)
<1>1. /\ Frame(u, a, k) /\ a.mode = u.mode /\ a.view[k].seq = u.view[k].seq + 1
      /\ a.view[k].phase = "loading"
      /\ k \notin Simulator => a.error = u.error
  BY BeginViewDoes
<1> HIDE DEF a
<1>2. /\ b \in PageType /\ b.view = a.view /\ b.mode = a.mode /\ b.busy = a.busy
      /\ k \notin Simulator => b.error = a.error
  BY <1>1, SetErrorDoes DEF Frame, Errors
<1> HIDE DEF b
<1>3. x \in ViewType /\ x.seq = b.view[k].seq + 1 /\ x.phase = b.view[k].phase
  <2>1. b.view[k] \in ViewType
    BY <1>2 DEF PageType
  <2> QED BY <2>1 DEF ViewType
<1> HIDE DEF x
<1>4. Frame(b, c, k) /\ c.view[k] = x /\ c.mode = b.mode /\ c.error = b.error
  BY <1>2, <1>3, SetViewDoes
<1> HIDE DEF c
<1>5. /\ Frame(c, v, k) /\ v.view = c.view /\ v.mode = c.mode /\ v.busy[FormOf(k)] = TRUE
      /\ v.error = c.error
  BY <1>4, OccupyDoes DEF Frame
<1>6. Started(u, k) = v /\ SetError(BeginView(u, k), k, "none") = b
  BY DEF Started, v, c, x, b, a
<1> HIDE DEF v
<1>7. /\ Frame(u, v, k) /\ v.mode = u.mode
      /\ v.view[k].seq = b.view[k].seq + 1 /\ v.view[k].phase = "loading"
      /\ k \notin Simulator => v.error = u.error
  BY <1>1, <1>2, <1>3, <1>4, <1>5 DEF Frame
<1>8. PageInv(v)
  BY <1>5, <1>7, PageStep
<1>9. v.view[k].seq > u.view[k].seq
  <2>1. u.view[k].seq \in Nat
    BY DEF PageType, ViewType
  <2> QED BY <1>1, <1>2, <1>7, <2>1
<1> QED BY <1>6, <1>7, <1>8, <1>9

-------------------------------------------------------------------------------
(* Types                                                                   *)

LEMMA RequestedType ==
  ASSUME NEW fields \in Fields, NEW k \in Views
  PROVE  /\ Requested(fields, k) \in RequestsOf[k] /\ Requested(fields, k) \in Requests
         /\ Valid(k, Requested(fields, k)) => 1 \in DOMAIN Requested(fields, k)
<1>1. Requested(fields, k) \in RequestsOf[k]
  BY DEF RequestsOf
<1>2. Requested(fields, k) \in Requests
  BY <1>1 DEF Requests
<1>3. k # "compare" => 1 \in DOMAIN Requested(fields, k)
  BY DEF Requested, Views, Simulator
<1>4. k = "compare" /\ Valid(k, Requested(fields, k)) => 1 \in DOMAIN Requested(fields, k)
  <2>1. k = "compare" => Requested(fields, k) \in Seq(Setups \X Amounts)
    BY ResultViewsAssumption DEF Requested, Fields
  <2> QED BY <2>1 DEF Valid
<1> QED BY <1>1, <1>2, <1>3, <1>4

LEMMA RequestIdType ==
  ASSUME NEW k \in Views, NEW request \in RequestsOf[k], NEW row \in DOMAIN request
  PROVE  RequestId(k, request[row]) \in Ids
<1>1. PICK fields \in Fields : request = Requested(fields, k)
  BY DEF RequestsOf
<1>2. CASE k = "analysis"
  BY <1>1, <1>2 DEF Requested, Fields, RequestId, Ids, Analyses
<1>3. CASE k = "dca"
  BY <1>1, <1>3 DEF Requested, Fields, RequestId, Ids, Analyses
<1>4. CASE k = "compare"
  <2>1. request \in Seq(Setups \X Amounts)
    BY <1>1, <1>4, ResultViewsAssumption DEF Requested, Fields
  <2>2. request[row] \in Setups \X Amounts
    BY <2>1
  <2> QED BY <1>4, <2>2 DEF RequestId, Ids, Analyses
<1>5. CASE k = "portfolio"
  BY <1>1, <1>5 DEF Requested, Fields, RequestId, Ids
<1> QED BY <1>2, <1>3, <1>4, <1>5 DEF Views, Simulator

LEMMA RowsAreNumbers ==
  ASSUME NEW k \in Views, NEW request \in RequestsOf[k]
  PROVE  Len(request) \in Nat /\ DOMAIN request = 1 .. Len(request)
<1>1. PICK fields \in Fields : request = Requested(fields, k)
  BY DEF RequestsOf
<1>2. CASE k = "compare"
  BY <1>1, <1>2, ResultViewsAssumption DEF Requested, Fields
<1>3. CASE k # "compare"
  <2>1. \E call : request = <<call>>
    BY <1>1, <1>3 DEF Requested, Views, Simulator
  <2>2. PICK call : request = <<call>>
    BY <2>1
  <2> QED BY <2>2
<1> QED BY <1>2, <1>3

LEMMA InputTypes ==
  ASSUME TypeOK, Input, form' \in Fields, ui' \in PageType, StartTypeOK',
         UNCHANGED <<runs, lastId>>
  PROVE  TypeOK'
BY ResultViewsAssumption DEF TypeOK, Input, EngineTypeOK, engineVars

LEMMA StartTypes ==
  ASSUME TypeOK, Input, form' \in Fields, ui' \in PageType, StartTypeOK',
         NEW run \in RunType, runs' = Append(runs, run), run.request \in RequestsOf[run.view],
         run.row \in DOMAIN run.request, run.at # "engine",
         lastId' \in [{"analysis", "dca", "portfolio"} -> Ids \union {NoId}]
  PROVE  TypeOK'
<1>1. runs' \in Seq(RunType)
  BY DEF TypeOK
<1>2. \A n \in DOMAIN runs' : runs'[n] = run \/ (n \in DOMAIN runs /\ runs'[n] = runs[n])
  BY DEF TypeOK
<1>3. \A n \in DOMAIN runs' : /\ runs'[n].request \in RequestsOf[runs'[n].view]
                              /\ runs'[n].row \in DOMAIN runs'[n].request
                              /\ runs'[n].at = "engine" => runs'[n].promise # 0
  BY <1>2 DEF TypeOK
<1>4. inputs' \in 0 .. MaxInputs
  BY ResultViewsAssumption DEF TypeOK, Input
<1>5. EngineTypeOK'
  BY DEF TypeOK, Input, EngineTypeOK, engineVars
<1> QED BY <1>1, <1>3, <1>4, <1>5 DEF TypeOK

LEMMA StepTypes ==
  ASSUME TypeOK, NEW n \in DOMAIN runs, NEW run \in RunType, SetRun(n, run),
         run.request \in RequestsOf[run.view], run.row \in DOMAIN run.request,
         run.at = "engine" => run.promise # 0, ui' \in PageType,
         lastId' \in [{"analysis", "dca", "portfolio"} -> Ids \union {NoId}],
         UNCHANGED <<form, starting, moved, inputs>>, EngineTypeOK'
  PROVE  TypeOK'
<1>4. StartTypeOK'
  BY DEF TypeOK, StartTypeOK
<1>1. runs' \in Seq(RunType)
  BY DEF TypeOK, SetRun
<1>2. \A m \in DOMAIN runs' : runs'[m] = run \/ (m \in DOMAIN runs /\ runs'[m] = runs[m])
  BY DEF TypeOK, SetRun
<1>3. \A m \in DOMAIN runs' : /\ runs'[m].request \in RequestsOf[runs'[m].view]
                              /\ runs'[m].row \in DOMAIN runs'[m].request
                              /\ runs'[m].at = "engine" => runs'[m].promise # 0
  BY <1>2 DEF TypeOK
<1> QED BY <1>1, <1>3, <1>4 DEF TypeOK

-------------------------------------------------------------------------------
(* The inputs                                                              *)

(* What an input has to show for the invariant to hold after it.           *)
LEMMA InputStep ==
  ASSUME IInv, Input, form' \in Fields, ui' \in PageType, PageInv(ui'), StartTypeOK',
         UNCHANGED <<runs, lastId>>, \A k \in Views : Kept(k) \/ Edited(k)
  PROVE  IInv'
<1>1. TypeOK'
  BY InputTypes DEF IInv
<1>2. RunsInv' /\ CurrentIsFresh'
  BY InputKeeps DEF IInv
<1> QED BY <1>1, <1>2 DEF IInv, PageInv, IsActive

LEMMA EditViewKeeps ==
  ASSUME NEW u \in PageType, PageInv(u), NEW k \in Views
  PROVE  LET v == EditView(u, k)
         IN  /\ Frame(u, v, k) /\ v.mode = u.mode /\ PageInv(v)
             /\ v.view[k].seq > u.view[k].seq /\ v.view[k].phase = "pending"
<1> DEFINE v == EditView(u, k)
<1>1. /\ Frame(u, v, k) /\ v.mode = u.mode
      /\ v.view[k].seq = u.view[k].seq + 1 /\ v.view[k].phase = "pending"
      /\ v.busy[FormOf(k)] = IF IsActive(u, k) THEN FALSE ELSE u.busy[FormOf(k)]
  BY EditViewDoes
<1> HIDE DEF v
<1>2. PageInv(v)
  BY <1>1, PageStep
<1>3. u.view[k].seq \in Nat
  BY DEF PageType, ViewType
<1>4. v.view[k].seq > u.view[k].seq
  BY <1>1, <1>3
<1> QED BY <1>1, <1>2, <1>4 DEF v

LEMMA EditSharedKeeps ==
  ASSUME IInv, NEW setup \in Setups, EditShared(setup)
  PROVE  IInv'
<1> DEFINE u == EditView(ui, "dca")
           v == EditView(u, "analysis")
<1>1. /\ Frame(ui, u, "dca") /\ PageInv(u)
      /\ u.view["dca"].seq > ui.view["dca"].seq /\ u.view["dca"].phase = "pending"
  BY EditViewKeeps DEF IInv, TypeOK, Views, Simulator
<1> HIDE DEF u
<1>2. /\ Frame(u, v, "analysis") /\ PageInv(v)
      /\ v.view["analysis"].seq > u.view["analysis"].seq /\ v.view["analysis"].phase = "pending"
  BY <1>1, EditViewKeeps DEF Frame, Views, Simulator
<1>3. ui' = v
  BY DEF EditShared, v, u
<1> HIDE DEF v
<1>4. form' \in Fields
  BY DEF EditShared, IInv, TypeOK, Fields
<1>5. ASSUME NEW k \in Views
      PROVE  Kept(k) \/ Edited(k)
  <2>1. CASE k \in Simulator
    BY <1>1, <1>2, <1>3, <2>1 DEF Frame, Edited, Views, Simulator
  <2>2. CASE k \notin Simulator
    <3>1. ui'.view[k] = ui.view[k]
      BY <1>1, <1>2, <1>3, <2>2 DEF Frame, Simulator
    <3>2. Requested(form', k) = Requested(form, k)
      BY <2>2 DEF EditShared, Requested, Views, Simulator, IInv, TypeOK, Fields
    <3>3. k \in moved => k \in moved'
      BY <2>2 DEF EditShared, Simulator
    <3> QED BY <3>1, <3>2, <3>3 DEF Kept, Suits
  <2> QED BY <2>1, <2>2
<1>6. StartTypeOK'
  BY DEF EditShared, IInv, TypeOK, StartTypeOK
<1> QED BY <1>2, <1>3, <1>4, <1>5, <1>6, InputStep DEF EditShared, Frame

LEMMA EditOwnKeeps ==
  ASSUME IInv, NEW k \in Views, NEW fields \in Fields, EditOwn(k, fields),
         \A j \in Views : j # k => Requested(fields, j) = Requested(form, j)
  PROVE  IInv'
<1> DEFINE v == EditView(ui, k)
<1>1. /\ Frame(ui, v, k) /\ PageInv(v)
      /\ v.view[k].seq > ui.view[k].seq /\ v.view[k].phase = "pending"
  BY EditViewKeeps DEF IInv, TypeOK
<1>2. ui' = v
  BY DEF EditOwn
<1> HIDE DEF v
<1>3. Edited(k)
  BY <1>1, <1>2 DEF Edited
<1>4. ASSUME NEW j \in Views, j # k
      PROVE  Kept(j)
  <2>1. ui'.view[j] = ui.view[j]
    BY <1>1, <1>2, <1>4 DEF Frame
  <2>2. Requested(form', j) = Requested(form, j) /\ (j \in moved => j \in moved')
    BY <1>4 DEF EditOwn
  <2> QED BY <2>1, <2>2 DEF Kept, Suits
<1>5. StartTypeOK'
  BY DEF EditOwn, IInv, TypeOK, StartTypeOK
<1> QED BY <1>1, <1>2, <1>3, <1>4, <1>5, InputStep DEF EditOwn, Frame

LEMMA EditsKeep ==
  ASSUME IInv, \/ \E a \in Amounts : EditAmount(a) \/ EditPlan(a)
               \/ \E b \in Baskets : EditBasket(b)
               \/ \E l \in Ledgers : EditLedger(l)
  PROVE  IInv'
<1>1. form \in Fields
  BY DEF IInv, TypeOK
<1>2. ASSUME NEW a \in Amounts, EditAmount(a)
      PROVE  IInv'
  <2> DEFINE fields == [form EXCEPT !.amount = a]
  <2>1. fields \in Fields
    BY <1>1 DEF Fields
  <2>2. \A j \in Views : j # "analysis" => Requested(fields, j) = Requested(form, j)
    BY <1>1 DEF Fields, Requested, Views, Simulator
  <2> QED BY <1>2, <2>1, <2>2, EditOwnKeeps DEF EditAmount, Views, Simulator
<1>3. ASSUME NEW a \in Amounts, EditPlan(a)
      PROVE  IInv'
  <2> DEFINE fields == [form EXCEPT !.plan = a]
  <2>1. fields \in Fields
    BY <1>1 DEF Fields
  <2>2. \A j \in Views : j # "dca" => Requested(fields, j) = Requested(form, j)
    BY <1>1 DEF Fields, Requested, Views, Simulator
  <2> QED BY <1>3, <2>1, <2>2, EditOwnKeeps DEF EditPlan, Views, Simulator
<1>4. ASSUME NEW b \in Baskets, EditBasket(b)
      PROVE  IInv'
  <2> DEFINE fields == [form EXCEPT !.basket = b]
  <2>1. fields \in Fields
    BY <1>1 DEF Fields
  <2>2. \A j \in Views : j # "compare" => Requested(fields, j) = Requested(form, j)
    BY <1>1 DEF Fields, Requested, Views, Simulator
  <2> QED BY <1>4, <2>1, <2>2, EditOwnKeeps DEF EditBasket, Views, Simulator
<1>5. ASSUME NEW l \in Ledgers, EditLedger(l)
      PROVE  IInv'
  <2> DEFINE fields == [form EXCEPT !.ledger = l]
  <2>1. fields \in Fields
    BY <1>1 DEF Fields
  <2>2. \A j \in Views : j # "portfolio" => Requested(fields, j) = Requested(form, j)
    BY <1>1 DEF Fields, Requested, Views, Simulator
  <2> QED BY <1>5, <2>1, <2>2, EditOwnKeeps DEF EditLedger, Views, Simulator
<1> QED BY <1>2, <1>3, <1>4, <1>5

LEMMA PickCardKeeps ==
  ASSUME IInv, NEW setup \in Setups, PickCard(setup)
  PROVE  IInv'
<1> DEFINE v == EditView(ui, "analysis")
<1>1. /\ Frame(ui, v, "analysis") /\ PageInv(v)
      /\ v.view["analysis"].seq > ui.view["analysis"].seq /\ v.view["analysis"].phase = "pending"
  BY EditViewKeeps DEF IInv, TypeOK, Views, Simulator
<1>2. ui' = v
  BY DEF PickCard
<1> HIDE DEF v
<1>3. form' \in Fields
  BY DEF PickCard, IInv, TypeOK, Fields
<1>4. Edited("analysis")
  BY <1>1, <1>2 DEF Edited
<1>5. ASSUME NEW k \in Views, k # "analysis"
      PROVE  Kept(k)
  <2>1. ui'.view[k] = ui.view[k]
    BY <1>1, <1>2, <1>5 DEF Frame
  <2>2. k # "dca" => Requested(form', k) = Requested(form, k)
    BY <1>5 DEF PickCard, Requested, Views, Simulator, IInv, TypeOK, Fields
  <2>3. (k = "dca" => k \in moved') /\ (k \in moved => k \in moved')
    BY DEF PickCard
  <2> QED BY <2>1, <2>2, <2>3 DEF Kept, Suits
<1>6. StartTypeOK'
  BY DEF PickCard, IInv, TypeOK, StartTypeOK, Movable
<1> QED BY <1>1, <1>2, <1>3, <1>4, <1>5, <1>6, InputStep DEF PickCard, Frame

LEMMA SetModeKeeps ==
  ASSUME IInv, NEW mode \in {"one-time", "regular"}, SetMode(mode)
  PROVE  IInv'
<1> DEFINE v == SwitchMode(ui, mode)
<1>1. v \in PageType /\ PageInv(v) /\ KeptOrEdited(ui, v)
  BY SwitchModeDoes DEF IInv, TypeOK
<1>2. ui' = v
  BY DEF SetMode
<1> HIDE DEF v
<1>3. \A k \in Views : Kept(k) \/ Edited(k)
  BY <1>1, <1>2 DEF KeptOrEdited, Kept, Edited, Suits, SetMode
<1>4. form' \in Fields /\ StartTypeOK'
  BY DEF SetMode, IInv, TypeOK, StartTypeOK
<1> QED BY <1>1, <1>2, <1>3, <1>4, InputStep DEF SetMode

(* A submission from a page u that at most had its views invalidated.      *)
LEMMA SubmittedKeeps ==
  ASSUME IInv, Input, NEW u \in PageType, PageInv(u), KeptOrEdited(ui, u),
         NEW fields \in Fields, form' = fields, StartTypeOK',
         NEW k \in Views, IsActive(u, k), Submitted(u, fields, k),
         \A j \in Views : j # k => \A request : Suits(j, request) => Suits(j, request)'
  PROVE  IInv'
<1> DEFINE request == Requested(fields, k)
<1>1. /\ \A j \in Views : ui.view[j].seq \in Nat /\ u.view[j].seq \in Nat
      /\ lastId \in [{"analysis", "dca", "portfolio"} -> Ids \union {NoId}]
      /\ TypeOK /\ RunsInv /\ CurrentIsFresh
  BY DEF IInv, TypeOK, PageType, ViewType
<1>2. request \in RequestsOf[k] /\ request \in Requests
      /\ (Valid(k, request) => 1 \in DOMAIN request)
  BY RequestedType
<1>3. ASSUME Frame(u, ui', k), ui'.view[k].seq > u.view[k].seq, ui'.view[k].phase # "current"
      PROVE  ui' \in PageType /\ Edited(k) /\ \A j \in Views : Kept(j) \/ Edited(j)
  <2>1. ui' \in PageType /\ ui'.view[k].seq \in Nat
    BY <1>3 DEF Frame, PageType, ViewType
  <2>2. Edited(k)
    BY <1>1, <1>3, <2>1 DEF KeptOrEdited, Edited
  <2>3. ASSUME NEW j \in Views, j # k
        PROVE  Kept(j) \/ Edited(j)
    BY <1>3, <2>3 DEF Frame, KeptOrEdited, Kept, Edited
  <2> QED BY <2>1, <2>2, <2>3
<1>4. CASE ~Valid(k, request)
  <2>1. ui' = Rejected(u, k) /\ UNCHANGED <<runs, lastId>>
    BY <1>4 DEF Submitted, Rejected
  <2>2. /\ Frame(u, ui', k) /\ PageInv(ui')
        /\ ui'.view[k].seq > u.view[k].seq /\ ui'.view[k].phase = "invalid"
    BY <2>1, RejectedDoes
  <2>3. ui' \in PageType /\ \A j \in Views : Kept(j) \/ Edited(j)
    BY <1>3, <2>2
  <2> QED BY <2>1, <2>2, <2>3, InputStep
<1>5. CASE Valid(k, request)
  <2> DEFINE seq == SetError(BeginView(u, k), k, "none").view[k].seq + 1
             run == [view |-> k, seq |-> seq, request |-> request,
                     at |-> FirstStage, row |-> 1, ready |-> {}, promise |-> 0,
                     previous |-> IF k \in Simulator THEN lastId[k] ELSE NoId]
  <2>1. /\ ui' = Started(u, k) /\ runs' = Append(runs, run)
        /\ lastId' = IF k = "dca" THEN [lastId EXCEPT !["dca"] = NoId] ELSE lastId
    BY <1>5 DEF Submitted, Started
  <2>2. /\ Frame(u, ui', k) /\ PageInv(ui') /\ ui'.view[k].seq = seq
        /\ ui'.view[k].seq > u.view[k].seq /\ ui'.view[k].phase = "loading"
    BY <2>1, StartedDoes
  <2> HIDE DEF seq
  <2>3. ui' \in PageType /\ Edited(k) /\ \A j \in Views : Kept(j) \/ Edited(j)
    BY <1>3, <2>2
  <2>4. seq \in Nat
    BY <2>2, <2>3 DEF PageType, ViewType
  <2>5. run \in RunType
    <3>1. (IF k \in Simulator THEN lastId[k] ELSE NoId) \in Ids \union {NoId}
      BY <1>1 DEF Simulator
    <3>2. 0 \in 0 .. MaxPromises
      BY ResultViewsAssumption
    <3> QED BY <1>2, <2>4, <3>1, <3>2 DEF RunType, FirstStage
  <2>6. /\ run.view = k /\ run.seq = seq /\ run.request = request
        /\ run.row = 1 /\ run.at # "engine"
    BY DEF FirstStage
  <2>7. lastId' \in [{"analysis", "dca", "portfolio"} -> Ids \union {NoId}]
    BY <1>1, <2>1
  <2> HIDE DEF run
  <2>8. TypeOK'
    BY <1>1, <1>2, <1>5, <2>1, <2>3, <2>5, <2>6, <2>7, StartTypes
  <2>9. RunsInv' /\ CurrentIsFresh'
    BY <1>1, <2>1, <2>2, <2>3, <2>5, <2>6, RunStarts
  <2> QED BY <2>2, <2>8, <2>9 DEF IInv, PageInv, IsActive
<1> QED BY <1>4, <1>5

LEMMA SubmitKeeps ==
  ASSUME IInv, NEW k \in Views, Submit(k)
  PROVE  IInv'
<1>1. form \in Fields /\ form' = form /\ StartTypeOK'
  BY DEF IInv, TypeOK, Submit, StartTypeOK
<1>2. ui \in PageType /\ PageInv(ui) /\ KeptOrEdited(ui, ui)
  BY DEF IInv, TypeOK, KeptOrEdited
<1>3. \A j \in Views : j # k => \A request : Suits(j, request) => Suits(j, request)'
  BY <1>1 DEF Suits, Submit
<1>4. Input /\ IsActive(ui, k) /\ Submitted(ui, form, k)
  BY DEF Submit
<1> QED BY <1>1, <1>2, <1>3, <1>4, SubmittedKeeps

LEMMA ReturnToDemoKeeps ==
  ASSUME IInv, ReturnToDemo
  PROVE  IInv'
<1> DEFINE u == SwitchMode(ui, "one-time")
           fields == [form EXCEPT !.setup = Demo[1], !.amount = Demo[2]]
<1>1. fields \in Fields /\ form' = fields /\ moved' = moved \union {"dca"}
  <2>1. Demo[1] \in Setups /\ Demo[2] \in Amounts
    BY ResultViewsAssumption
  <2>2. form \in Fields
    BY DEF IInv, TypeOK
  <2> QED BY <2>1, <2>2 DEF Fields, ReturnToDemo
<1>2. u \in PageType /\ u.mode = "one-time" /\ PageInv(u) /\ KeptOrEdited(ui, u)
  BY SwitchModeDoes DEF IInv, TypeOK
<1>3. Input /\ Submitted(u, fields, "analysis")
  BY <1>1 DEF ReturnToDemo
<1>4. ASSUME NEW j \in Views, j # "analysis"
      PROVE  \A request : Suits(j, request) => Suits(j, request)'
  <2>1. j # "dca" => Requested(form', j) = Requested(form, j)
    BY <1>1, <1>4 DEF Requested, Views, Simulator, IInv, TypeOK, Fields
  <2> QED BY <1>1, <2>1 DEF Suits
<1>6. StartTypeOK'
  BY <1>1 DEF ReturnToDemo, IInv, TypeOK, StartTypeOK, Movable
<1> HIDE DEF u, fields
<1>5. IsActive(u, "analysis") /\ "analysis" \in Views
  BY <1>2 DEF IsActive, ActiveSimulator, Views, Simulator
<1> QED BY <1>1, <1>2, <1>3, <1>4, <1>5, <1>6, SubmittedKeeps

LEMMA RestoreLedgerKeeps ==
  ASSUME IInv, NEW l \in Ledgers, RestoreLedger(l)
  PROVE  IInv'
<1>1. form' \in Fields
  BY DEF RestoreLedger, IInv, TypeOK, Fields
<1>2. StartTypeOK'
  BY DEF RestoreLedger, IInv, TypeOK, StartTypeOK, Movable
<1>3. ASSUME NEW k \in Views
      PROVE  Kept(k)
  <2>1. k # "portfolio" => Requested(form', k) = Requested(form, k)
    BY DEF RestoreLedger, Requested, Views, Simulator, IInv, TypeOK, Fields
  <2>2. (k = "portfolio" => k \in moved') /\ (k \in moved => k \in moved')
    BY DEF RestoreLedger
  <2> QED BY <2>1, <2>2 DEF Kept, Suits, RestoreLedger
<1>4. ui' \in PageType /\ PageInv(ui')
  BY DEF RestoreLedger, IInv, TypeOK
<1> QED BY <1>1, <1>2, <1>3, <1>4, InputStep DEF RestoreLedger

LEMMA ApplyAnalysisUrlKeeps ==
  ASSUME IInv, NEW setup \in Setups, NEW amount \in Amounts, ApplyAnalysisUrl(setup, amount)
  PROVE  IInv'
<1> DEFINE u == SwitchMode(ui, "one-time")
           v == EditView(u, "analysis")
<1>1. u \in PageType /\ PageInv(u) /\ KeptOrEdited(ui, u)
  BY SwitchModeDoes DEF IInv, TypeOK
<1>2. ui' = v
  BY DEF ApplyAnalysisUrl
<1> HIDE DEF u
<1>3. /\ Frame(u, v, "analysis") /\ PageInv(v)
      /\ v.view["analysis"].seq > u.view["analysis"].seq /\ v.view["analysis"].phase = "pending"
  BY <1>1, EditViewKeeps DEF Views, Simulator
<1> HIDE DEF v
<1>4. form' \in Fields
  BY DEF ApplyAnalysisUrl, IInv, TypeOK, Fields
<1>5. StartTypeOK'
  BY DEF ApplyAnalysisUrl, IInv, TypeOK, StartTypeOK, Movable
<1>6. \A k \in Views : /\ ui.view[k].seq \in Nat /\ u.view[k].seq \in Nat
                       /\ v.view[k].seq \in Nat
  BY <1>1, <1>3 DEF Frame, PageType, ViewType, IInv, TypeOK
<1>7. Edited("analysis")
  BY <1>1, <1>2, <1>3, <1>6 DEF KeptOrEdited, Edited, Views, Simulator
<1>8. ASSUME NEW k \in Views, k # "analysis"
      PROVE  Kept(k) \/ Edited(k)
  <2>1. v.view[k] = u.view[k]
    BY <1>3, <1>8 DEF Frame
  <2>2. k # "dca" => Requested(form', k) = Requested(form, k)
    BY <1>8 DEF ApplyAnalysisUrl, Requested, Views, Simulator, IInv, TypeOK, Fields
  <2>3. (k = "dca" => k \in moved') /\ (k \in moved => k \in moved')
    BY DEF ApplyAnalysisUrl
  <2>4. \A request : Suits(k, request) => Suits(k, request)'
    BY <2>2, <2>3 DEF Suits
  <2> QED BY <1>1, <1>2, <2>1, <2>4 DEF KeptOrEdited, Kept, Edited
<1> QED BY <1>2, <1>3, <1>4, <1>5, <1>7, <1>8, InputStep DEF ApplyAnalysisUrl, Frame

-------------------------------------------------------------------------------
(* The steps of a run                                                      *)

LEMMA RunTypes ==
  ASSUME TypeOK, NEW n \in DOMAIN runs
  PROVE  /\ runs[n] \in RunType /\ runs[n].view \in Views /\ runs[n].row \in Nat
         /\ runs[n].request \in RequestsOf[runs[n].view] /\ runs[n].request \in Requests
         /\ runs[n].row \in DOMAIN runs[n].request
         /\ runs[n].ready \in SUBSET Nat /\ runs[n].previous \in Ids \union {NoId}
<1>1. runs[n] \in RunType
  BY TypedFields
<1>2. /\ runs[n].view \in Views /\ runs[n].row \in Nat /\ runs[n].request \in Requests
      /\ runs[n].ready \in SUBSET Nat /\ runs[n].previous \in Ids \union {NoId}
  BY <1>1 DEF RunType
<1>3. runs[n].request \in RequestsOf[runs[n].view] /\ runs[n].row \in DOMAIN runs[n].request
  BY DEF TypeOK
<1> QED BY <1>1, <1>2, <1>3

LEMMA AbandonKeeps ==
  ASSUME IInv, NEW n \in DOMAIN runs, Abandon(n)
  PROVE  IInv'
<1> DEFINE run == [runs[n] EXCEPT !.at = "done"]
<1>1. /\ runs[n] \in RunType /\ runs[n].request \in RequestsOf[runs[n].view]
      /\ runs[n].row \in DOMAIN runs[n].request
  BY DEF IInv, TypeOK
<1>2. /\ run \in RunType /\ run.at = "done" /\ run.view = runs[n].view
      /\ run.seq = runs[n].seq /\ run.request = runs[n].request /\ run.row = runs[n].row
  BY <1>1 DEF RunType
<1>3. /\ SetRun(n, run) /\ UNCHANGED <<form, starting, moved, inputs, ui, lastId>>
      /\ UNCHANGED engineVars
  BY DEF Abandon, Run
<1> HIDE DEF run
<1>4. TypeOK'
  BY <1>1, <1>2, <1>3, StepTypes DEF IInv, TypeOK, EngineTypeOK, engineVars
<1>5. RunsInv' /\ CurrentIsFresh'
  BY <1>2, <1>3, RunGoesOn DEF IInv
<1> QED BY <1>3, <1>4, <1>5 DEF IInv, PageInv, IsActive

LEMMA RowEndsKeeps ==
  ASSUME IInv, NEW n \in DOMAIN runs, ~Stale(n), runs[n].at # "done",
         NEW rows \in SUBSET Nat, RowEnds(n, rows),
         UNCHANGED <<form, lastId, starting, moved, inputs, engineVars>>
  PROVE  IInv'
<1> DEFINE k == runs[n].view
<1>1. /\ runs[n] \in RunType /\ runs[n].request \in RequestsOf[k]
      /\ runs[n].row \in DOMAIN runs[n].request
      /\ k \in Views /\ runs[n].request \in Requests /\ runs[n].row \in Nat
  BY RunTypes DEF IInv
<1>2. ui \in PageType /\ PageInv(ui) /\ TypeOK /\ RunsInv /\ CurrentIsFresh
  BY DEF IInv, TypeOK
<1>3. EngineTypeOK'
  BY <1>2 DEF TypeOK, EngineTypeOK, engineVars
<1>4. CASE runs[n].row < Len(runs[n].request)
  <2> DEFINE a == [runs[n] EXCEPT !.row = @ + 1]
             b == [a EXCEPT !.ready = rows]
             c == [b EXCEPT !.at = FirstStage]
  <2>1. SetRun(n, c) /\ UNCHANGED ui
    BY <1>4 DEF RowEnds, Run
  <2>2. a \in RunType /\ a.view = k /\ a.seq = runs[n].seq /\ a.request = runs[n].request
        /\ a.row = runs[n].row + 1
    BY <1>1 DEF RunType
  <2> HIDE DEF a
  <2>3. b \in RunType /\ b.view = k /\ b.seq = a.seq /\ b.request = a.request /\ b.row = a.row
    BY <2>2 DEF RunType
  <2> HIDE DEF b
  <2>4. c \in RunType /\ c.view = k /\ c.seq = b.seq /\ c.request = b.request /\ c.row = b.row
        /\ c.at # "engine"
    BY <2>3 DEF RunType, FirstStage
  <2> HIDE DEF c
  <2>5. c.row \in DOMAIN c.request
    <3>1. Len(c.request) \in Nat /\ DOMAIN c.request = 1 .. Len(c.request)
      BY <1>1, <2>2, <2>3, <2>4, RowsAreNumbers
    <3> QED BY <1>1, <1>4, <2>2, <2>3, <2>4, <3>1
  <2>6. TypeOK'
    BY <1>1, <1>2, <1>3, <2>1, <2>2, <2>3, <2>4, <2>5, StepTypes DEF TypeOK
  <2>7. RunsInv' /\ CurrentIsFresh'
    BY <1>2, <2>1, <2>2, <2>3, <2>4, RunGoesOn
  <2> QED BY <1>2, <2>1, <2>6, <2>7 DEF IInv, PageInv, IsActive
<1>5. CASE runs[n].row = Len(runs[n].request)
  <2> DEFINE run == [runs[n] EXCEPT !.at = "done"]
  <2>1. /\ SetRun(n, run)
        /\ ui' = IF rows # {} THEN Succeed(ui, k, runs[n].request, rows) ELSE Fail(ui, k)
    BY <1>5 DEF RowEnds, Run
  <2>2. /\ run \in RunType /\ run.at = "done" /\ run.view = k /\ run.seq = runs[n].seq
        /\ run.request = runs[n].request /\ run.row = runs[n].row
    BY <1>1 DEF RunType
  <2> HIDE DEF run
  <2>3. IsActive(ui, k)
    BY <1>1, <1>2 DEF RunsInv, PageInv
  <2>4. /\ Frame(ui, ui', k) /\ ui'.mode = ui.mode /\ ui'.busy[FormOf(k)] = FALSE
        /\ ui'.view[k].seq = ui.view[k].seq /\ ui'.view[k].phase \in {"current", "failed"}
        /\ ui'.view[k].phase = "current" => ui'.view[k].request = runs[n].request
    <3>1. CASE rows # {}
      <4> DEFINE v == Succeed(ui, k, runs[n].request, rows)
      <4>1. rows \in SUBSET Nat /\ k \in Views /\ runs[n].request \in Requests /\ ui \in PageType
        BY <1>1, <1>2
      <4>2. /\ Frame(ui, v, k) /\ v.mode = ui.mode /\ v.busy[FormOf(k)] = FALSE
            /\ v.view[k].seq = ui.view[k].seq /\ v.view[k].phase = "current"
            /\ v.view[k].request = runs[n].request
        BY ONLY <4>1, SucceedDoes
      <4>3. ui' = v
        BY <2>1, <3>1
      <4> HIDE DEF v
      <4> QED BY <4>2, <4>3
    <3>2. CASE rows = {}
      <4> DEFINE v == Fail(ui, k)
      <4>1. /\ Frame(ui, v, k) /\ v.mode = ui.mode /\ v.busy[FormOf(k)] = FALSE
            /\ v.view[k].seq = ui.view[k].seq /\ v.view[k].phase = "failed"
        BY <1>1, <1>2, FailDoes
      <4>2. ui' = v
        BY <2>1, <3>2
      <4> HIDE DEF v
      <4> QED BY <4>1, <4>2
    <3> QED BY <3>1, <3>2
  <2>5. ui' \in PageType /\ PageInv(ui')
    BY <1>1, <1>2, <2>3, <2>4, PageStep DEF Frame
  <2>6. TypeOK'
    BY <1>1, <1>2, <1>3, <2>1, <2>2, <2>5, StepTypes DEF TypeOK
  <2>7. RunsInv' /\ CurrentIsFresh'
    BY <1>2, <2>1, <2>2, <2>4, <2>5, RunEnds DEF Frame
  <2> QED BY <2>5, <2>6, <2>7 DEF IInv, PageInv, IsActive
<1> QED BY <1>4, <1>5 DEF RowEnds, Run

LEMMA AnswersKeep ==
  ASSUME IInv, NEW n \in DOMAIN runs, AdapterAnswers(n) \/ PacksFail(n) \/ Receive(n)
  PROVE  IInv'
<1>1. runs[n].ready \in SUBSET Nat /\ Answered(n) \in SUBSET Nat
  BY RunTypes DEF IInv, Answered, Run
<1> DEFINE rows == IF AdapterAnswers(n) THEN Answered(n)
                   ELSE IF PacksFail(n) THEN runs[n].ready
                   ELSE IF outcome[runs[n].promise] = "resolved" THEN Answered(n)
                   ELSE runs[n].ready
<1>2. /\ rows \in SUBSET Nat /\ RowEnds(n, rows) /\ ~Stale(n) /\ runs[n].at # "done"
      /\ UNCHANGED <<form, lastId, starting, moved, inputs, engineVars>>
  BY <1>1 DEF AdapterAnswers, PacksFail, Receive, Run
<1> HIDE DEF rows
<1> QED BY <1>2, RowEndsKeeps

LEMMA AdapterFailsKeeps ==
  ASSUME IInv, NEW n \in DOMAIN runs, AdapterFails(n)
  PROVE  IInv'
<1> DEFINE previous == IF runs[n].view = "analysis" THEN lastId["analysis"] ELSE runs[n].previous
           a == [runs[n] EXCEPT !.at = "packs"]
           run == [a EXCEPT !.previous = previous]
           v == SetError(ui, runs[n].view, "fallback")
<1>1. /\ runs[n] \in RunType /\ runs[n].request \in RequestsOf[runs[n].view]
      /\ runs[n].row \in DOMAIN runs[n].request /\ runs[n].view \in Views
  BY RunTypes DEF IInv
<1>2. /\ run \in RunType /\ run.at = "packs" /\ run.view = runs[n].view
      /\ run.seq = runs[n].seq /\ run.request = runs[n].request /\ run.row = runs[n].row
  <2>1. previous \in Ids \union {NoId}
    BY RunTypes DEF IInv, TypeOK
  <2> HIDE DEF previous
  <2>2. /\ a \in RunType /\ a.at = "packs" /\ a.view = runs[n].view
        /\ a.seq = runs[n].seq /\ a.request = runs[n].request /\ a.row = runs[n].row
    BY <1>1 DEF RunType
  <2> HIDE DEF a
  <2> QED BY <2>1, <2>2 DEF RunType
<1>3. v \in PageType /\ v.view = ui.view /\ v.mode = ui.mode /\ v.busy = ui.busy
  BY <1>1, SetErrorDoes DEF IInv, TypeOK, Errors
<1>4. /\ SetRun(n, run) /\ ui' = v /\ runs[n].at # "done"
      /\ UNCHANGED <<form, starting, moved, inputs, lastId, engineVars>>
  BY DEF AdapterFails, Run
<1> HIDE DEF run, v
<1>5. EngineTypeOK'
  BY <1>4 DEF IInv, TypeOK, EngineTypeOK, engineVars
<1>6. TypeOK'
  BY <1>1, <1>2, <1>3, <1>4, <1>5, StepTypes DEF IInv, TypeOK
<1>7. RunsInv' /\ CurrentIsFresh'
  BY <1>2, <1>3, <1>4, RunGoesOn DEF IInv
<1> QED BY <1>3, <1>4, <1>6, <1>7 DEF IInv, PageInv, IsActive

LEMMA IssueKeeps ==
  ASSUME IInv, NEW n \in DOMAIN runs, Issue(n)
  PROVE  IInv'
<1> DEFINE a == [runs[n] EXCEPT !.at = "engine"]
           run == [a EXCEPT !.promise = issued + 1]
           id == RequestId(runs[n].view, runs[n].request[runs[n].row])
<1>1. /\ runs[n] \in RunType /\ runs[n].request \in RequestsOf[runs[n].view]
      /\ runs[n].row \in DOMAIN runs[n].request /\ runs[n].view \in Views
  BY RunTypes DEF IInv
<1>2. /\ issued \in Nat /\ issued + 1 \in 1 .. MaxPromises /\ issued + 1 \in 0 .. MaxPromises
      /\ issued + 1 # 0
  BY ResultViewsAssumption DEF Issue, Engine!Place, IInv, TypeOK, EngineTypeOK
<1>3. /\ a \in RunType /\ a.view = runs[n].view
      /\ a.seq = runs[n].seq /\ a.request = runs[n].request /\ a.row = runs[n].row
  BY <1>1 DEF RunType
<1>4. SetRun(n, run) /\ runs[n].at # "done"
  BY DEF Issue, Run
<1> HIDE DEF a
<1>5. /\ run \in RunType /\ run.view = runs[n].view /\ run.promise # 0
      /\ run.seq = runs[n].seq /\ run.request = runs[n].request /\ run.row = runs[n].row
  BY <1>2, <1>3 DEF RunType
<1> HIDE DEF run
<1>6. id \in Ids
  BY <1>1, RequestIdType
<1>7. lastId' \in [{"analysis", "dca", "portfolio"} -> Ids \union {NoId}]
  <2>1. /\ lastId' = IF runs[n].view = "compare" THEN lastId
                     ELSE [lastId EXCEPT ![runs[n].view] = id]
    BY DEF Issue, Run
  <2> QED BY <1>6, <2>1 DEF IInv, TypeOK
<1>8. EngineTypeOK'
  <2>1. Previous(n) \in Ids \union {NoId}
    BY RunTypes DEF Previous, Run, IInv, TypeOK
  <2>2. asked' = asked \union ({Previous(n)} \ {NoId, id}) /\ Engine!Place(id)
    BY DEF Issue, Run
  <2> HIDE DEF id
  <2>3. EngineTypeOK
    BY DEF IInv, TypeOK
  <2>4. asked' \subseteq Ids
    BY <2>1, <2>2, <2>3 DEF EngineTypeOK
  <2>5. /\ issued' \in 0 .. MaxPromises
        /\ owner' \in [Engine!Promises -> Ids \union {NoId}]
        /\ outcome' \in [Engine!Promises ->
                          {"unissued", "waiting", "resolved", "rejected", "cancelled"}]
        /\ slot' \in [Ids -> Engine!Promises \union {Engine!NoPromise}]
    BY <1>2, <1>6, <2>2, <2>3 DEF EngineTypeOK, Engine!Place, Engine!Promises
  <2> QED BY <2>4, <2>5 DEF EngineTypeOK
<1>9. UNCHANGED <<form, ui, starting, moved, inputs>>
  BY DEF Issue
<1> HIDE DEF id
<1>10. TypeOK'
  BY <1>1, <1>4, <1>5, <1>7, <1>8, <1>9, StepTypes DEF IInv, TypeOK
<1>11. RunsInv' /\ CurrentIsFresh'
  BY <1>4, <1>5, <1>9, RunGoesOn DEF IInv
<1> QED BY <1>9, <1>10, <1>11 DEF IInv, PageInv, IsActive

LEMMA EngineKeeps ==
  ASSUME IInv, NEW id \in Ids, EngineAnswers(id)
  PROVE  IInv'
<1>1. EngineTypeOK'
  <2>1. EngineTypeOK
    BY DEF IInv, TypeOK
  <2>2. PICK how \in {"resolved", "rejected", "cancelled"} : Engine!Settle(id, how)
    BY DEF EngineAnswers, Engine!Answer, Engine!Withdraw
  <2> QED BY <2>1, <2>2 DEF EngineTypeOK, Engine!Settle, Engine!Promises, Engine!NoPromise
<1>2. UNCHANGED pageVars
  BY DEF EngineAnswers
<1>3. TypeOK'
  BY <1>1, <1>2 DEF IInv, TypeOK, StartTypeOK, pageVars
<1> QED BY <1>2, <1>3 DEF IInv, pageVars, PageInv, IsActive, RunsInv, CurrentIsFresh, IsFresh,
                         Suits, Stale, Run, Requested

-------------------------------------------------------------------------------
(* What the steps do to the error line                                     *)

(* No view goes back to an earlier run.                                    *)
NotEarlier(u, v) == \A k \in Views : v.view[k].seq >= u.view[k].seq

LEMMA FrameIsNotEarlier ==
  ASSUME NEW u \in PageType, NEW v, NEW k \in Views, Frame(u, v, k), v.view[k].seq >= u.view[k].seq
  PROVE  NotEarlier(u, v)
<1>1. \A j \in Views : u.view[j].seq \in Nat
  BY DEF PageType, ViewType
<1> QED BY <1>1 DEF Frame, NotEarlier

LEMMA EditViewExplains ==
  ASSUME NEW u \in PageType, NEW k \in Views, ErrorInv(u)
  PROVE  LET v == EditView(u, k)
         IN  v \in PageType /\ NotEarlier(u, v) /\ ErrorInv(v)
<1> DEFINE v == EditView(u, k)
<1>1. /\ Frame(u, v, k) /\ v.mode = u.mode /\ v.view[k].seq = u.view[k].seq + 1
      /\ v.view[k].phase = "pending" /\ v.view[k].error = "none"
      /\ v.error = IF IsActive(u, k) /\ k \in Simulator THEN "none" ELSE u.error
  BY EditViewDoes
<1> HIDE DEF v
<1>2. u.view[k].seq \in Nat
  BY DEF PageType, ViewType
<1>3. NotEarlier(u, v)
  BY <1>1, <1>2, FrameIsNotEarlier
<1>4. ErrorInv(v)
  <2>1. /\ Explains(k, v.view[k].phase, v.view[k].error)
        /\ k \in Simulator /\ IsActive(u, k) => Explains(k, v.view[k].phase, v.error)
    BY <1>1 DEF Explains
  <2> QED BY <1>1, <2>1, ErrorStep
<1> QED BY <1>1, <1>3, <1>4 DEF Frame, v

LEMMA SubmittedExplains ==
  ASSUME NEW u \in PageType, PageInv(u), ErrorInv(u), NEW fields, NEW k \in Views, IsActive(u, k),
         Submitted(u, fields, k)
  PROVE  NotEarlier(u, ui') /\ ErrorInv(ui')
<1>0. \A j \in Views : u.view[j].seq \in Nat
  BY DEF PageType, ViewType
<1>1. CASE ui' = Rejected(u, k)
  <2>1. /\ Frame(u, ui', k) /\ ui'.mode = u.mode /\ ui'.view[k].seq > u.view[k].seq
        /\ ui'.view[k].phase = "invalid"
        /\ ui'.error = IF k \in Simulator THEN "validation" ELSE u.error
        /\ k \in Simulator => ui'.view[k].error = "validation"
    BY <1>1, RejectedDoes
  <2>2. ui'.view[k].seq \in Nat
    BY <2>1 DEF Frame, PageType, ViewType
  <2>3. k \in Simulator => /\ Explains(k, ui'.view[k].phase, ui'.view[k].error)
                           /\ IsActive(u, k) => Explains(k, ui'.view[k].phase, ui'.error)
    BY <2>1 DEF Explains
  <2>4. ErrorInv(ui')
    BY <2>1, <2>3, ErrorStep
  <2> QED BY <1>0, <2>1, <2>2, <2>4, FrameIsNotEarlier
<1>2. CASE ui' = Started(u, k)
  <2>1. /\ Frame(u, ui', k) /\ ui'.mode = u.mode /\ ui'.view[k].seq > u.view[k].seq
        /\ ui'.view[k].phase = "loading" /\ (k \notin Simulator => ui'.error = u.error)
    BY <1>2, StartedDoes
  <2>2. ui'.view[k].seq \in Nat
    BY <2>1 DEF Frame, PageType, ViewType
  <2>3. /\ Explains(k, ui'.view[k].phase, ui'.view[k].error)
        /\ Explains(k, ui'.view[k].phase, ui'.error)
    BY <2>1 DEF Explains
  <2>4. ErrorInv(ui')
    BY <2>1, <2>3, ErrorStep
  <2> QED BY <1>0, <2>1, <2>2, <2>4, FrameIsNotEarlier
<1> QED BY <1>1, <1>2 DEF Submitted, Rejected, Started

LEMMA SwitchExplains ==
  ASSUME NEW u \in PageType, PageInv(u), ErrorInv(u), NEW mode \in {"one-time", "regular"}
  PROVE  LET v == SwitchMode(u, mode)
         IN  /\ v \in PageType /\ v.mode = mode /\ PageInv(v)
             /\ NotEarlier(u, v) /\ ErrorInv(v)
<1> DEFINE v == SwitchMode(u, mode)
<1>1. v \in PageType /\ v.mode = mode /\ PageInv(v) /\ KeptOrEdited(u, v) /\ ErrorInv(v)
  <2>1. v \in PageType /\ v.mode = mode /\ PageInv(v) /\ KeptOrEdited(u, v)
    BY SwitchModeDoes
  <2>2. ErrorInv(v)
    BY SwitchModeDoes
  <2> QED BY <2>1, <2>2
<1> HIDE DEF v
<1>2. \A j \in Views : u.view[j].seq \in Nat /\ v.view[j].seq \in Nat
  BY <1>1 DEF PageType, ViewType
<1>3. NotEarlier(u, v)
  BY <1>1, <1>2 DEF KeptOrEdited, NotEarlier
<1> QED BY <1>1, <1>3 DEF v

LEMMA InputsExplain ==
  ASSUME IInv, ErrorInv(ui),
         \/ \E s \in Setups : EditShared(s) \/ PickCard(s)
         \/ \E a \in Amounts : EditAmount(a) \/ EditPlan(a)
         \/ \E b \in Baskets : EditBasket(b)
         \/ \E l \in Ledgers : EditLedger(l)
         \/ \E mode \in {"one-time", "regular"} : SetMode(mode)
         \/ \E k \in Views : Submit(k)
         \/ ReturnToDemo
         \/ \E l \in Ledgers : RestoreLedger(l)
         \/ \E s \in Setups, a \in Amounts : ApplyAnalysisUrl(s, a)
  PROVE  NotEarlier(ui, ui') /\ ErrorInv(ui')
<1>1. ui \in PageType /\ PageInv(ui)
  BY DEF IInv, TypeOK
<1>2. CASE \E s \in Setups : EditShared(s)
  <2> DEFINE u == EditView(ui, "dca")
             v == EditView(u, "analysis")
  <2>1. u \in PageType /\ NotEarlier(ui, u) /\ ErrorInv(u)
    BY <1>1, EditViewExplains DEF Views, Simulator
  <2>2. ui' = v
    BY <1>2 DEF EditShared
  <2> HIDE DEF u
  <2>3. v \in PageType /\ NotEarlier(u, v) /\ ErrorInv(v)
    BY <2>1, EditViewExplains DEF Views, Simulator
  <2> HIDE DEF v
  <2>4. \A j \in Views : /\ ui.view[j].seq \in Nat /\ u.view[j].seq \in Nat
                         /\ v.view[j].seq \in Nat
    BY <1>1, <2>1, <2>3 DEF PageType, ViewType
  <2>5. NotEarlier(ui, v)
    BY <2>1, <2>3, <2>4 DEF NotEarlier
  <2> QED BY <2>2, <2>3, <2>5
<1>3. CASE \E k \in Views : ui' = EditView(ui, k)
  BY <1>1, <1>3, EditViewExplains
<1>4. CASE \E mode \in {"one-time", "regular"} : SetMode(mode)
  BY <1>1, <1>4, SwitchExplains DEF SetMode
<1>5. CASE \E k \in Views : Submit(k)
  BY <1>1, <1>5, SubmittedExplains DEF Submit
<1>6. CASE ReturnToDemo
  <2> DEFINE u == SwitchMode(ui, "one-time")
  <2>1. u \in PageType /\ u.mode = "one-time" /\ PageInv(u) /\ NotEarlier(ui, u) /\ ErrorInv(u)
    BY <1>1, SwitchExplains
  <2>2. Submitted(u, form', "analysis")
    BY <1>6 DEF ReturnToDemo
  <2> HIDE DEF u
  <2>3. IsActive(u, "analysis") /\ "analysis" \in Views
    BY <2>1 DEF IsActive, ActiveSimulator, Views, Simulator
  <2>4. NotEarlier(u, ui') /\ ErrorInv(ui')
    BY <2>1, <2>2, <2>3, SubmittedExplains
  <2>5. ui' \in PageType
    BY <1>6, ReturnToDemoKeeps DEF IInv, TypeOK
  <2>6. \A j \in Views : /\ ui.view[j].seq \in Nat /\ u.view[j].seq \in Nat
                         /\ ui'.view[j].seq \in Nat
    BY <1>1, <2>1, <2>5 DEF PageType, ViewType
  <2> QED BY <2>1, <2>4, <2>6 DEF NotEarlier
<1>7. {"analysis", "dca", "compare", "portfolio"} = Views
  BY DEF Views, Simulator
<1>8. CASE \E l \in Ledgers : RestoreLedger(l)
  BY <1>1, <1>8 DEF RestoreLedger, NotEarlier, PageType, ViewType
<1>9. CASE \E s \in Setups, a \in Amounts : ApplyAnalysisUrl(s, a)
  <2> DEFINE u == SwitchMode(ui, "one-time")
             v == EditView(u, "analysis")
  <2>1. u \in PageType /\ NotEarlier(ui, u) /\ ErrorInv(u)
    BY <1>1, SwitchExplains
  <2>2. ui' = v
    BY <1>9 DEF ApplyAnalysisUrl
  <2> HIDE DEF u
  <2>3. v \in PageType /\ NotEarlier(u, v) /\ ErrorInv(v)
    BY <2>1, EditViewExplains DEF Views, Simulator
  <2> HIDE DEF v
  <2>4. \A j \in Views : /\ ui.view[j].seq \in Nat /\ u.view[j].seq \in Nat
                         /\ v.view[j].seq \in Nat
    BY <1>1, <2>1, <2>3 DEF PageType, ViewType
  <2>5. NotEarlier(ui, v)
    BY <2>1, <2>3, <2>4 DEF NotEarlier
  <2> QED BY <2>2, <2>3, <2>5
<1> QED BY <1>2, <1>3, <1>4, <1>5, <1>6, <1>7, <1>8, <1>9
        DEF PickCard, EditOwn, EditAmount, EditPlan, EditBasket, EditLedger

LEMMA RowEndsExplains ==
  ASSUME IInv, ErrorInv(ui), NEW n \in DOMAIN runs, ~Stale(n), runs[n].at # "done",
         NEW rows \in SUBSET Nat, RowEnds(n, rows)
  PROVE  NotEarlier(ui, ui') /\ ErrorInv(ui')
<1> DEFINE k == runs[n].view
<1>1. /\ ui \in PageType /\ k \in Views /\ runs[n].request \in Requests /\ ui.view[k].seq \in Nat
      /\ \A j \in Views : ui.view[j].seq \in Nat
  BY RunTypes, TypedFields DEF IInv
<1>2. IsActive(ui, k)
  BY <1>1 DEF IInv, RunsInv, PageInv
<1>3. CASE UNCHANGED ui
  BY <1>1, <1>3 DEF NotEarlier
<1>4. CASE rows # {} /\ ui' = Succeed(ui, k, runs[n].request, rows)
  <2> DEFINE v == Succeed(ui, k, runs[n].request, rows)
  <2> HIDE DEF k
  <2>1. /\ k \in Views /\ runs[n].request \in Requests /\ ui \in PageType
        /\ rows \in SUBSET Nat
    BY <1>1
  <2>2. /\ Frame(ui, v, k) /\ v.mode = ui.mode /\ v.busy[FormOf(k)] = FALSE
        /\ v.view[k].seq = ui.view[k].seq /\ v.view[k].phase = "current"
        /\ v.view[k].request = runs[n].request
    BY ONLY <2>1, SucceedDoes
  <2>3. /\ v.view[k].error = "none"
        /\ k \in Simulator => v.error = "none"
        /\ k \notin Simulator => v.error = ui.error
    BY ONLY <2>1, SucceedClears
  <2> HIDE DEF v
  <2>4. k \in Simulator => /\ Explains(k, v.view[k].phase, v.view[k].error)
                           /\ Explains(k, v.view[k].phase, v.error)
    BY <2>2, <2>3 DEF Explains
  <2>5. ErrorInv(v) /\ NotEarlier(ui, v)
    BY <1>1, <1>2, <2>2, <2>3, <2>4, ErrorStep, FrameIsNotEarlier
  <2> QED BY <1>4, <2>5 DEF v
<1>5. CASE ui' = Fail(ui, k)
  <2> DEFINE v == Fail(ui, k)
  <2> HIDE DEF k
  <2>1. /\ Frame(ui, v, k) /\ v.mode = ui.mode /\ v.view[k].seq = ui.view[k].seq
        /\ v.view[k].phase = "failed" /\ (k = "dca" => v.view[k].error = "failure")
        /\ v.error = IF k \in Simulator THEN "failure" ELSE ui.error
    BY <1>1, FailDoes
  <2> HIDE DEF v
  <2>2. k \in Simulator => /\ Explains(k, v.view[k].phase, v.view[k].error)
                           /\ Explains(k, v.view[k].phase, v.error)
    BY <2>1 DEF Explains
  <2>3. ErrorInv(v) /\ NotEarlier(ui, v)
    BY <1>1, <1>2, <2>1, <2>2, ErrorStep, FrameIsNotEarlier
  <2> QED BY <1>5, <2>3 DEF v
<1> QED BY <1>3, <1>4, <1>5 DEF RowEnds, Run

LEMMA StepsExplain ==
  ASSUME IInv, ErrorInv(ui), NEW n \in DOMAIN runs, RunStep(n)
  PROVE  NotEarlier(ui, ui') /\ ErrorInv(ui')
<1>1. ui \in PageType /\ runs[n].view \in Views /\ \A j \in Views : ui.view[j].seq \in Nat
  BY RunTypes, TypedFields DEF IInv
<1>2. CASE Abandon(n) \/ Issue(n)
  BY <1>1, <1>2 DEF Abandon, Issue, NotEarlier
<1>3. CASE AdapterAnswers(n) \/ PacksFail(n) \/ Receive(n)
  <2>1. runs[n].ready \in SUBSET Nat /\ Answered(n) \in SUBSET Nat
    BY RunTypes DEF IInv, Answered, Run
  <2>2. PICK rows \in SUBSET Nat : RowEnds(n, rows)
    BY <1>3, <2>1 DEF AdapterAnswers, PacksFail, Receive, Run
  <2>3. ~Stale(n) /\ runs[n].at # "done"
    BY <1>3 DEF AdapterAnswers, PacksFail, Receive, Run
  <2> QED BY <2>2, <2>3, RowEndsExplains
<1>4. CASE AdapterFails(n)
  <2> DEFINE k == runs[n].view
             v == SetError(ui, k, "fallback")
  <2>1. /\ v \in PageType /\ v.view = ui.view /\ v.mode = ui.mode
        /\ v.error = IF k \in Simulator THEN "fallback" ELSE ui.error
    BY <1>1, SetErrorDoes DEF Errors
  <2>2. ui' = v /\ ~Stale(n) /\ runs[n].at # "done"
    BY <1>4 DEF AdapterFails, Run
  <2> HIDE DEF v
  <2>3. ui.view[k].phase = "loading" /\ IsActive(ui, k)
    BY <1>1, <2>2 DEF IInv, RunsInv, PageInv
  <2>4. ASSUME NEW j \in Simulator, j # k, IsActive(v, j)
        PROVE  v.error = ui.error
    BY <2>1, <2>3, <2>4 DEF IsActive
  <2>5. ErrorInv(v)
    BY <2>1, <2>3, <2>4 DEF ErrorInv, Explains, IsActive
  <2>6. NotEarlier(ui, v)
    BY <1>1, <2>1 DEF NotEarlier
  <2> QED BY <2>2, <2>5, <2>6
<1> QED BY <1>2, <1>3, <1>4 DEF RunStep

-------------------------------------------------------------------------------
(* Cancelled requests                                                      *)

(* The promises of the runs were issued, for requests of the panels.       *)
PromisesInv ==
  \A n \in DOMAIN runs :
    runs[n].promise # 0 => runs[n].promise <= issued /\ owner[runs[n].promise] \in Ids

(* What the current analysis read as the request it replaces is the last   *)
(* one that was issued, until it issues its own.                           *)
PreviousInv ==
  \A n \in DOMAIN runs :
    runs[n].view = "analysis" /\ runs[n].at = "packs" /\ ~Stale(n)
      => runs[n].previous = lastId["analysis"]

CancelInv == PromisesInv /\ PreviousInv /\ OlderAreCancelled

(* A run as it is in a step that issues and settles nothing.               *)
AsBefore(m) ==
  /\ m \in DOMAIN runs /\ runs'[m].view = runs[m].view /\ runs'[m].seq = runs[m].seq
  /\ runs'[m].promise = runs[m].promise
  /\ runs'[m].view = "analysis" /\ runs'[m].at = "packs"
       => \/ runs[m].at = "packs" /\ runs'[m].previous = runs[m].previous
          \/ runs'[m].previous = lastId["analysis"]

Begun(m) ==
  /\ runs'[m].promise = 0
  /\ runs'[m].view = "analysis" => runs'[m].previous = lastId["analysis"]

LEMMA NothingIsIssued ==
  ASSUME IInv, CancelInv, UNCHANGED <<issued, owner, outcome, asked>>, NotEarlier(ui, ui'),
         IInv', lastId'["analysis"] = lastId["analysis"],
         lastId'["portfolio"] = lastId["portfolio"],
         \A m \in DOMAIN runs' : AsBefore(m) \/ Begun(m)
  PROVE  CancelInv'
<1>1. PromisesInv'
  BY DEF CancelInv, PromisesInv, AsBefore, Begun
<1>2. OlderAreCancelled'
  BY DEF CancelInv, OlderAreCancelled, AsBefore, Begun
<1>3. ASSUME NEW m \in DOMAIN runs', runs'[m].view = "analysis", runs'[m].at = "packs",
             ui'.view[runs'[m].view].seq = runs'[m].seq
      PROVE  runs'[m].previous = lastId["analysis"]
  <2>1. CASE Begun(m)
    BY <1>3, <2>1 DEF Begun
  <2>2. CASE AsBefore(m)
    <3>1. /\ m \in DOMAIN runs /\ runs[m].view = "analysis" /\ runs'[m].seq = runs[m].seq
      BY <1>3, <2>2 DEF AsBefore
    <3>2. /\ runs[m].seq \in Nat /\ runs[m].seq <= ui.view["analysis"].seq
          /\ ui.view["analysis"].seq \in Nat /\ ui'.view["analysis"].seq \in Nat
          /\ ui'.view["analysis"].seq >= ui.view["analysis"].seq
      <4>1. "analysis" \in Views
        BY DEF Views, Simulator
      <4>2. ui'.view["analysis"].seq \in Nat
        BY <4>1 DEF IInv, TypeOK, PageType, ViewType
      <4>3. runs[m].seq \in Nat /\ ui.view["analysis"].seq \in Nat
        BY <3>1, <4>1, TypedFields DEF IInv
      <4> QED BY <3>1, <4>1, <4>2, <4>3 DEF IInv, RunsInv, NotEarlier
    <3>3. ~Stale(m)
      BY <1>3, <3>1, <3>2 DEF Stale, Run
    <3> QED BY <1>3, <2>2, <3>1, <3>3 DEF AsBefore, CancelInv, PreviousInv
  <2> QED BY <2>1, <2>2
<1>4. PreviousInv'
  BY <1>3 DEF PreviousInv, Stale, Run
<1> QED BY <1>1, <1>2, <1>4 DEF CancelInv

LEMMA SubmittedCancels ==
  ASSUME IInv, NEW u, NEW fields, NEW k \in Views, Submitted(u, fields, k)
  PROVE  /\ lastId'["analysis"] = lastId["analysis"]
         /\ lastId'["portfolio"] = lastId["portfolio"]
         /\ \A m \in DOMAIN runs' : AsBefore(m) \/ Begun(m)
<1>1. lastId \in [{"analysis", "dca", "portfolio"} -> Ids \union {NoId}] /\ runs \in Seq(RunType)
  BY DEF IInv, TypeOK
<1>2. CASE UNCHANGED <<runs, lastId>>
  BY <1>2 DEF AsBefore
<1>3. CASE ~ UNCHANGED <<runs, lastId>>
  <2> DEFINE seq == SetError(BeginView(u, k), k, "none").view[k].seq + 1
             run == [view |-> k, seq |-> seq, request |-> Requested(fields, k),
                     at |-> FirstStage, row |-> 1, ready |-> {}, promise |-> 0,
                     previous |-> IF k \in Simulator THEN lastId[k] ELSE NoId]
  <2>1. /\ runs' = Append(runs, run)
        /\ lastId' = IF k = "dca" THEN [lastId EXCEPT !["dca"] = NoId] ELSE lastId
    BY <1>3 DEF Submitted
  <2>2. run.promise = 0 /\ (run.view = "analysis" => run.previous = lastId["analysis"])
    BY DEF Simulator
  <2> HIDE DEF run
  <2>3. \A m \in DOMAIN runs' : runs'[m] = run \/ (m \in DOMAIN runs /\ runs'[m] = runs[m])
    BY <1>1, <2>1
  <2>4. /\ lastId'["analysis"] = lastId["analysis"]
        /\ lastId'["portfolio"] = lastId["portfolio"]
    BY <1>1, <2>1
  <2> QED BY <2>2, <2>3, <2>4 DEF AsBefore, Begun
<1> QED BY <1>2, <1>3

LEMMA InputsCancel ==
  ASSUME IInv, ErrorInv(ui), CancelInv, IInv',
         \/ \E s \in Setups : EditShared(s) \/ PickCard(s)
         \/ \E a \in Amounts : EditAmount(a) \/ EditPlan(a)
         \/ \E b \in Baskets : EditBasket(b)
         \/ \E l \in Ledgers : EditLedger(l)
         \/ \E mode \in {"one-time", "regular"} : SetMode(mode)
         \/ \E k \in Views : Submit(k)
         \/ ReturnToDemo
         \/ \E l \in Ledgers : RestoreLedger(l)
         \/ \E s \in Setups, a \in Amounts : ApplyAnalysisUrl(s, a)
  PROVE  CancelInv'
<1>1. NotEarlier(ui, ui')
  BY InputsExplain
<1>2. UNCHANGED <<issued, owner, outcome, asked>>
  BY DEF EditShared, PickCard, EditAmount, EditPlan, EditBasket, EditLedger, EditOwn, SetMode,
         Submit, ReturnToDemo, RestoreLedger, ApplyAnalysisUrl, Input, engineVars
<1>3. /\ lastId'["analysis"] = lastId["analysis"]
      /\ lastId'["portfolio"] = lastId["portfolio"]
      /\ \A m \in DOMAIN runs' : AsBefore(m) \/ Begun(m)
  <2>1. CASE UNCHANGED <<runs, lastId>>
    BY <2>1 DEF AsBefore
  <2>2. CASE \E u, fields : \E k \in Views : Submitted(u, fields, k)
    BY <2>2, SubmittedCancels
  <2>3. "analysis" \in Views
    BY DEF Views, Simulator
  <2> QED BY <2>1, <2>2, <2>3 DEF EditShared, PickCard, EditAmount, EditPlan, EditBasket,
                                  EditLedger, EditOwn, SetMode, Submit, ReturnToDemo,
                                  RestoreLedger, ApplyAnalysisUrl
<1> QED BY <1>1, <1>2, <1>3, NothingIsIssued

(* An analysis has one row.                                                *)
LEMMA OneRow ==
  ASSUME IInv, NEW n \in DOMAIN runs, runs[n].view = "analysis"
  PROVE  Len(runs[n].request) = 1 /\ runs[n].row = 1
<1>1. runs[n].request \in RequestsOf["analysis"] /\ runs[n].row \in DOMAIN runs[n].request
  BY RunTypes DEF IInv
<1>2. PICK fields \in Fields : runs[n].request = Requested(fields, "analysis")
  BY <1>1 DEF RequestsOf, Views, Simulator
<1>3. \E call : runs[n].request = <<call>>
  BY <1>2 DEF Requested
<1> QED BY <1>1, <1>3

LEMMA QuietStepsCancel ==
  ASSUME IInv, ErrorInv(ui), CancelInv, IInv', NEW n \in DOMAIN runs, RunStep(n), ~Issue(n)
  PROVE  CancelInv'
<1>1. NotEarlier(ui, ui')
  BY StepsExplain
<1>2. UNCHANGED <<issued, owner, outcome, asked, lastId>>
  BY DEF RunStep, Abandon, AdapterAnswers, AdapterFails, PacksFail, Receive, engineVars
<1>3. /\ runs[n] \in RunType /\ runs[n].row \in Nat /\ Len(runs[n].request) \in Nat
      /\ runs \in Seq(RunType)
  <2>1. Len(runs[n].request) \in Nat
    BY RunTypes, RowsAreNumbers DEF IInv
  <2> QED BY <2>1, RunTypes, TypedFields DEF IInv
<1>4. ASSUME NEW run, SetRun(n, run), run.view = runs[n].view, run.seq = runs[n].seq,
             run.promise = runs[n].promise,
             run.view = "analysis" /\ run.at = "packs" => run.previous = lastId["analysis"]
      PROVE  \A m \in DOMAIN runs' : AsBefore(m)
  BY <1>3, <1>4 DEF SetRun, AsBefore
<1>5. \A m \in DOMAIN runs' : AsBefore(m)
  <2>1. CASE SetRun(n, [Run(n) EXCEPT !.at = "done"])
    <3> DEFINE run == [runs[n] EXCEPT !.at = "done"]
    <3>1. /\ run.view = runs[n].view /\ run.seq = runs[n].seq /\ run.at = "done"
          /\ run.promise = runs[n].promise
      BY <1>3 DEF RunType
    <3>2. SetRun(n, run)
      BY <2>1 DEF Run
    <3> HIDE DEF run
    <3> QED BY <1>4, <3>1, <3>2
  <2>2. ASSUME NEW rows, Run(n).row < Len(Run(n).request),
               SetRun(n, [Run(n) EXCEPT !.row = @ + 1, !.ready = rows, !.at = FirstStage])
        PROVE  \A m \in DOMAIN runs' : AsBefore(m)
    <3> DEFINE a == [runs[n] EXCEPT !.row = @ + 1]
               b == [a EXCEPT !.ready = rows]
               run == [b EXCEPT !.at = FirstStage]
    <3>1. a.view = runs[n].view /\ a.seq = runs[n].seq /\ a.promise = runs[n].promise
      BY <1>3 DEF RunType
    <3>3. /\ run.view = runs[n].view /\ run.seq = runs[n].seq
          /\ run.promise = runs[n].promise
      BY <1>3 DEF RunType
    <3>4. SetRun(n, run)
      BY <2>2 DEF Run
    <3>5. runs[n].view # "analysis"
      <4>1. runs[n].row < Len(runs[n].request)
        BY <2>2 DEF Run
      <4>2. runs[n].view = "analysis" => Len(runs[n].request) = 1 /\ runs[n].row = 1
        BY OneRow
      <4> HIDE DEF a, b, run
      <4>3. runs[n].view = "analysis" => 1 < 1
        BY <4>1, <4>2
      <4> QED BY <4>3
    <3> HIDE DEF a, b, run
    <3> QED BY <1>4, <3>3, <3>4, <3>5
  <2>3. CASE AdapterFails(n)
    <3> DEFINE previous == IF runs[n].view = "analysis" THEN lastId["analysis"]
                                                        ELSE runs[n].previous
               run == [runs[n] EXCEPT !.at = "packs", !.previous = previous]
    <3>1. /\ run.view = runs[n].view /\ run.seq = runs[n].seq
          /\ run.promise = runs[n].promise /\ run.previous = previous
      BY <1>3 DEF RunType
    <3>2. SetRun(n, run)
      BY <2>3 DEF AdapterFails, Run
    <3> HIDE DEF run
    <3> QED BY <1>4, <3>1, <3>2
  <2> QED BY <2>1, <2>2, <2>3 DEF RunStep, Abandon, AdapterAnswers, PacksFail, Receive, RowEnds
<1> QED BY <1>1, <1>2, <1>5, NothingIsIssued

(* The request that a new one replaces is cancelled with it: what the run  *)
(* read as the previous one still is the last one of its view.             *)
LEMMA IssueCancels ==
  ASSUME IInv, CancelInv, NEW n \in DOMAIN runs, Issue(n)
  PROVE  CancelInv'
<1> DEFINE id == RequestId(runs[n].view, runs[n].request[runs[n].row])
           run == [runs[n] EXCEPT !.at = "engine", !.promise = issued + 1]
<1>1. /\ runs[n] \in RunType /\ runs[n].view \in Views /\ issued \in Nat /\ id \in Ids
      /\ runs \in Seq(RunType) /\ issued < MaxPromises
  <2>1. runs[n] \in RunType /\ runs[n].view \in Views /\ runs \in Seq(RunType)
    BY RunTypes, TypedFields DEF IInv
  <2>2. id \in Ids
    BY RunTypes, RequestIdType DEF IInv
  <2>3. issued \in Nat /\ issued < MaxPromises
    BY ResultViewsAssumption DEF IInv, TypeOK, EngineTypeOK, Issue, Engine!Place
  <2> QED BY <2>1, <2>2, <2>3
<1>2. /\ run.view = runs[n].view /\ run.seq = runs[n].seq /\ run.at = "engine"
      /\ run.promise = issued + 1
  BY <1>1 DEF RunType
<1>3. /\ SetRun(n, run) /\ ~Stale(n) /\ runs[n].at = "packs" /\ UNCHANGED ui
      /\ asked' = asked \union ({Previous(n)} \ {NoId, id})
      /\ lastId' = IF runs[n].view = "compare" THEN lastId
                   ELSE [lastId EXCEPT ![runs[n].view] = id]
  BY DEF Issue, Run
<1>4. /\ issued' = issued + 1 /\ owner' = [owner EXCEPT ![issued + 1] = id]
      /\ outcome' = [outcome EXCEPT ![issued + 1] = "waiting"]
  BY DEF Issue, Run, Engine!Place
<1> HIDE DEF run, id
<1>5. /\ DOMAIN runs' = DOMAIN runs /\ runs'[n] = run
      /\ \A m \in DOMAIN runs : m # n => runs'[m] = runs[m]
  BY <1>1, <1>3 DEF SetRun
<1>6. owner'[issued + 1] = id /\ \A p \in 1 .. issued : owner'[p] = owner[p] /\ outcome'[p] = outcome[p]
  <2>1. issued + 1 \in 1 .. MaxPromises /\ MaxPromises \in Nat
    BY <1>1, ResultViewsAssumption
  <2>2. owner \in [1 .. MaxPromises -> Ids \union {NoId}] /\ DOMAIN outcome = 1 .. MaxPromises
    BY DEF IInv, TypeOK, EngineTypeOK, Engine!Promises
  <2> QED BY <1>1, <1>4, <2>1, <2>2
<1>7. /\ lastId \in [{"analysis", "dca", "portfolio"} -> Ids \union {NoId}]
      /\ runs[n].view # "compare" => lastId'[runs[n].view] = id
      /\ \A k \in {"analysis", "portfolio"} : k # runs[n].view => lastId'[k] = lastId[k]
  BY <1>1, <1>3 DEF IInv, TypeOK, Views, Simulator
<1>8. ASSUME NEW m \in DOMAIN runs, m # n, runs[m].promise # 0
      PROVE  runs[m].promise \in 1 .. issued /\ owner[runs[m].promise] \in Ids
  <2>1. runs[m].promise \in Nat
    BY TypedFields, ResultViewsAssumption DEF IInv, RunType
  <2> QED BY <1>1, <1>8, <2>1 DEF CancelInv, PromisesInv
<1>9. PromisesInv'
  BY <1>1, <1>2, <1>4, <1>5, <1>6, <1>8 DEF PromisesInv
<1>10. PreviousInv'
  <2>1. ASSUME NEW m \in DOMAIN runs, m # n, runs[m].view = "analysis", runs[m].at = "packs",
               ui.view["analysis"].seq = runs[m].seq
        PROVE  runs[m].previous = lastId'["analysis"]
    <3>1. ~Stale(m)
      BY <2>1 DEF Stale, Run
    <3>2. runs[n].view # "analysis"
      BY <1>3, <2>1 DEF IInv, RunsInv, Stale, Run
    <3> QED BY <1>7, <2>1, <3>1, <3>2 DEF CancelInv, PreviousInv
  <2> QED BY <1>2, <1>3, <1>5, <2>1 DEF PreviousInv, Stale, Run
<1>11. OlderAreCancelled'
  <2>1. SUFFICES ASSUME NEW m \in DOMAIN runs, runs'[m].view \in {"analysis", "portfolio"},
                        runs'[m].promise # 0, outcome'[runs'[m].promise] = "waiting"
                 PROVE  owner'[runs'[m].promise] \in asked' \union {lastId'[runs'[m].view]}
    BY <1>5 DEF OlderAreCancelled
  <2>2. CASE m = n
    BY <1>2, <1>5, <1>6, <1>7, <2>1, <2>2
  <2>3. CASE m # n
    <3>1. /\ runs'[m] = runs[m] /\ runs[m].promise \in 1 .. issued
          /\ owner[runs[m].promise] \in Ids
      BY <1>5, <1>8, <2>1, <2>3
    <3>2. /\ owner'[runs[m].promise] = owner[runs[m].promise]
          /\ owner[runs[m].promise] \in asked \union {lastId[runs[m].view]}
      BY <1>6, <2>1, <3>1 DEF CancelInv, OlderAreCancelled
    <3>3. CASE runs[m].view # runs[n].view
      BY <1>3, <1>7, <2>1, <3>1, <3>2, <3>3
    <3>4. CASE runs[m].view = runs[n].view
      <4>1. Previous(n) = lastId[runs[n].view]
        BY <1>3, <2>1, <3>1, <3>4 DEF Previous, Run, CancelInv, PreviousInv
      <4>2. lastId'[runs[n].view] = id
        BY <1>7, <2>1, <3>1, <3>4
      <4>3. owner[runs[m].promise] # NoId
        BY <3>1, NoIdAssumption
      <4> QED BY <1>3, <3>1, <3>2, <3>4, <4>1, <4>2, <4>3
    <3> QED BY <3>3, <3>4
  <2> QED BY <2>2, <2>3
<1> QED BY <1>9, <1>10, <1>11 DEF CancelInv

LEMMA EngineCancels ==
  ASSUME IInv, CancelInv, NEW id \in Ids, EngineAnswers(id)
  PROVE  CancelInv'
<1>1. PICK how \in {"resolved", "rejected", "cancelled"} : Engine!Settle(id, how)
  BY DEF EngineAnswers, Engine!Answer, Engine!Withdraw
<1>2. /\ \A p : outcome'[p] = "waiting" => outcome[p] = "waiting"
      /\ UNCHANGED <<issued, owner, asked, pageVars>>
  <2>1. outcome' = [outcome EXCEPT ![slot[id]] = how]
    BY <1>1 DEF Engine!Settle
  <2>2. \A p \in DOMAIN outcome : outcome'[p] = "waiting" => outcome[p] = "waiting"
    BY <1>1, <2>1
  <2> QED BY <1>1, <2>1, <2>2 DEF Engine!Settle, EngineAnswers
<1> QED BY <1>2 DEF CancelInv, PromisesInv, PreviousInv, OlderAreCancelled, Stale, Run, pageVars

-------------------------------------------------------------------------------
(* The theorems                                                            *)

LEMMA InitInv == Init => IInv
<1> SUFFICES ASSUME Init
             PROVE  IInv
  OBVIOUS
<1>1. form \in Fields
  BY ResultViewsAssumption DEF Init, Fields
<1>2. ui \in PageType
  <2> DEFINE view == [phase |-> "empty", request |-> None, rows |-> {}, seq |-> 0,
                      error |-> "none"]
  <2>1. view \in ViewType
    BY DEF ViewType, Errors
  <2> HIDE DEF view
  <2>2. ui = [mode |-> "one-time", error |-> "none", unavailable |-> FALSE,
              busy |-> [f \in Forms |-> FALSE], view |-> [k \in Views |-> view]]
    BY DEF Init, view
  <2> QED BY <2>1, <2>2 DEF PageType, Errors
<1>3. EngineTypeOK
  BY ResultViewsAssumption DEF Init, Engine!Init, EngineTypeOK, Engine!Promises, Engine!NoPromise
<1>4. TypeOK
  <2>1. runs \in Seq(RunType) /\ DOMAIN runs = {}
    BY DEF Init
  <2>2. lastId \in [{"analysis", "dca", "portfolio"} -> Ids \union {NoId}]
    <3>1. lastId = [k \in {"analysis", "dca", "portfolio"} |-> NoId]
      BY DEF Init
    <3> QED BY <3>1
  <2>3. inputs \in 0 .. MaxInputs /\ StartTypeOK
    <3>1. inputs = 0 /\ starting = Continuations /\ moved = {}
      BY DEF Init
    <3>2. 0 \in 0 .. MaxInputs
      BY ResultViewsAssumption
    <3> QED BY <3>1, <3>2 DEF StartTypeOK
  <2>4. \A n \in DOMAIN runs : /\ runs[n].request \in RequestsOf[runs[n].view]
                              /\ runs[n].row \in DOMAIN runs[n].request
                              /\ runs[n].at = "engine" => runs[n].promise # 0
    BY <2>1
  <2> QED BY <1>1, <1>2, <1>3, <2>1, <2>2, <2>3, <2>4 DEF TypeOK
<1>5. PageInv(ui) /\ CurrentIsFresh
  BY FormOfType DEF Init, PageInv, CurrentIsFresh, IsFresh
<1>6. RunsInv
  BY DEF Init, RunsInv
<1> QED BY <1>4, <1>5, <1>6 DEF IInv

LEMMA StepInv == IInv /\ [Next]_vars => IInv'
<1> SUFFICES ASSUME IInv, [Next]_vars
             PROVE  IInv'
  OBVIOUS
<1>1. CASE \E s \in Setups : EditShared(s) \/ PickCard(s)
  BY <1>1, EditSharedKeeps, PickCardKeeps
<1>2. CASE \/ \E a \in Amounts : EditAmount(a) \/ EditPlan(a)
           \/ \E b \in Baskets : EditBasket(b)
           \/ \E l \in Ledgers : EditLedger(l)
  BY <1>2, EditsKeep
<1>3. CASE \E mode \in {"one-time", "regular"} : SetMode(mode)
  BY <1>3, SetModeKeeps
<1>4. CASE \E k \in Views : Submit(k)
  BY <1>4, SubmitKeeps
<1>5. CASE ReturnToDemo
  BY <1>5, ReturnToDemoKeeps
<1>6. CASE \E n \in DOMAIN runs : RunStep(n)
  BY <1>6, AbandonKeeps, AnswersKeep, AdapterFailsKeeps, IssueKeeps DEF RunStep
<1>7. CASE \E id \in Ids : EngineAnswers(id)
  BY <1>7, EngineKeeps
<1>9. CASE \/ \E l \in Ledgers : RestoreLedger(l)
           \/ \E s \in Setups, a \in Amounts : ApplyAnalysisUrl(s, a)
  BY <1>9, RestoreLedgerKeeps, ApplyAnalysisUrlKeeps
<1>8. CASE UNCHANGED vars
  BY <1>8 DEF vars, pageVars, engineVars, IInv, TypeOK, StartTypeOK, EngineTypeOK, PageInv, IsActive, RunsInv,
              CurrentIsFresh, IsFresh, Suits, Stale, Run, Requested
<1> QED BY <1>1, <1>2, <1>3, <1>4, <1>5, <1>6, <1>7, <1>8, <1>9 DEF Next

THEOREM InductiveInvariant == Spec => []IInv
BY InitInv, StepInv, PTL DEF Spec

(* The page, its runs and the engine keep their types.                     *)
THEOREM TypeCorrect == Spec => []TypeOK
<1>1. IInv => TypeOK
  BY DEF IInv
<1> QED BY <1>1, InductiveInvariant, PTL

(* app.js shows a result as current only when it was calculated from the   *)
(* inputs on the form, for any number of edits, changes of mode, overlaps  *)
(* of runs and late answers, and however late the stored ledger and the    *)
(* scenario of the address arrive; excepted is the view whose form one of  *)
(* the four handlers named with CurrentIsFresh changed without an edit.    *)
THEOREM CurrentIsAlwaysFresh == Spec => []CurrentIsFresh
<1>1. IInv => CurrentIsFresh
  BY DEF IInv
<1> QED BY <1>1, InductiveInvariant, PTL

LEMMA LaterInv ==
  IInv /\ ErrorInv(ui) /\ CancelInv /\ [Next]_vars => (ErrorInv(ui) /\ CancelInv)'
<1> SUFFICES ASSUME IInv, ErrorInv(ui), CancelInv, [Next]_vars
             PROVE  (ErrorInv(ui))' /\ CancelInv'
  OBVIOUS
<1>1. IInv'
  BY StepInv
<1>2. ErrorInv(ui') => (ErrorInv(ui))'
  BY DEF ErrorInv, Explains, IsActive
<1>3. CASE \/ \E s \in Setups : EditShared(s) \/ PickCard(s)
           \/ \E a \in Amounts : EditAmount(a) \/ EditPlan(a)
           \/ \E b \in Baskets : EditBasket(b)
           \/ \E l \in Ledgers : EditLedger(l)
           \/ \E mode \in {"one-time", "regular"} : SetMode(mode)
           \/ \E k \in Views : Submit(k)
           \/ ReturnToDemo
           \/ \E l \in Ledgers : RestoreLedger(l)
           \/ \E s \in Setups, a \in Amounts : ApplyAnalysisUrl(s, a)
  BY <1>1, <1>2, <1>3, InputsExplain, InputsCancel
<1>4. CASE \E n \in DOMAIN runs : RunStep(n)
  BY <1>1, <1>2, <1>4, StepsExplain, QuietStepsCancel, IssueCancels
<1>5. CASE \E id \in Ids : EngineAnswers(id)
  BY <1>2, <1>5, EngineCancels DEF EngineAnswers, pageVars
<1>6. CASE UNCHANGED vars
  BY <1>2, <1>6 DEF vars, pageVars, engineVars, CancelInv, PromisesInv, PreviousInv,
                    OlderAreCancelled, Stale, Run
<1> QED BY <1>3, <1>4, <1>5, <1>6 DEF Next

LEMMA LaterInvHolds == Spec => [](ErrorInv(ui) /\ CancelInv)
<1>1. Init => ErrorInv(ui) /\ CancelInv
  BY DEF Init, ErrorInv, Explains, CancelInv, PromisesInv, PreviousInv, OlderAreCancelled,
         Views, Simulator
<1> QED BY <1>1, LaterInv, InductiveInvariant, PTL DEF Spec

(* The error line of app.js speaks of the view on show: a view that was    *)
(* rejected, and a failed regular investing, come back with their message, *)
(* and any other view without one, however the modes were switched, the    *)
(* forms edited and the runs of both modes overlapped.                     *)
THEOREM FailureIsAlwaysExplained == Spec => []FailureIsExplained
<1>1. ErrorInv(ui) => FailureIsExplained
  BY DEF ErrorInv, Explains, FailureIsExplained, IsActive, ActiveSimulator, Simulator
<1> QED BY <1>1, LaterInvHolds, PTL

(* A calculation whose run was replaced has been asked to cancel since its *)
(* successor was issued (app.js: the cancel that follows the request), for *)
(* any number of submissions and any order of answers.                     *)
THEOREM OlderAreAlwaysCancelled == Spec => []OlderAreCancelled
<1>1. CancelInv => OlderAreCancelled
  BY DEF CancelInv
<1> QED BY <1>1, LaterInvHolds, PTL

===============================================================================
