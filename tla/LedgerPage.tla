------------------------------ MODULE LedgerPage ------------------------------
(***************************************************************************)
(* The portfolio ledger of the page (frontend/ledger-store.js and the      *)
(* ledger part of frontend/app.js).  Contents of the table are numbered in *)
(* the order in which they are made; those of Incomplete hold a row that   *)
(* the store refuses.                                                      *)
(***************************************************************************)
EXTENDS BrowserDatabase

CONSTANTS
  Contents,   (* bound: the contents that the user makes                   *)
  Incomplete, (* those with a row that is not yet complete                 *)
  Partial     (* those with a row that has no security, or that has fees   *)

ASSUME LedgerAssumption ==
  Contents \subseteq Nat \ {0} /\ Incomplete \subseteq Contents /\ Partial \subseteq Contents

DefaultRow == 0
Nothing    == -1
Rows       == Contents \cup {DefaultRow}

(* ledgerRowTemplate: a row without a security is shown with the selected  *)
(* one, and none with its fees.                                            *)
Shown(rows) == IF rows \in Partial THEN -1 - rows ELSE rows

VARIABLES
  record,     (* the ledger stored under "current"                         *)
  table,      (* the rows shown by each tab                                *)
  restoring,  (* the tabs that wait for their stored ledger                *)
  used,       (* the contents made so far                                  *)
  edited,     (* the tabs whose user has changed the ledger                *)
  overtaken,  (* the tabs where the answer to what was asked for before    *)
              (* their user's last action came after it, or may come       *)
  unsaved     (* the tabs where a write was blocked or aborted             *)

ledgerVars == <<record, table, restoring, used, edited, overtaken, unsaved>>

IsWaitingFor(page, kinds) ==
  \E i \in DOMAIN requests : requests[i].page = page /\ requests[i].kind \in kinds
                             /\ requests[i].state # "blocked"

(* save: rows that normalizeRows refuses never reach the database.         *)
Save(page, rows) == IF rows \in Incomplete THEN <<>> ELSE <<Request(page, "save", rows)>>

(* s5RestoreLedger, when the page starts.                                  *)
StartLedger(page) ==
  /\ table' = [table EXCEPT ![page] = Nothing]
  /\ restoring' = restoring \cup {page}
  /\ edited' = edited \ {page} /\ overtaken' = overtaken \ {page} /\ unsaved' = unsaved \ {page}
  /\ UNCHANGED <<record, used>>

(* s5AutoSaveLedger after a change event or a row added.                   *)
Edit(page, rows) ==
  /\ rows \in Contents \ used
  /\ used' = used \cup {rows}
  /\ table' = [table EXCEPT ![page] = rows]
  /\ edited' = edited \cup {page}
  /\ overtaken' = IF page \in restoring \/ IsWaitingFor(page, {"import"})
                  THEN overtaken \cup {page} ELSE overtaken \ {page}
  /\ requests' = requests \o Save(page, rows)
  /\ UNCHANGED <<record, restoring, unsaved>>

AskClear(page) ==
  /\ requests' = Append(requests, Request(page, "remove", Nothing))
  /\ edited' = edited \cup {page}
  /\ UNCHANGED <<record, table, restoring, used, overtaken, unsaved>>

(* importJson: a file of the user; one that is refused changes nothing.    *)
(* (After a clear that is still on its way, its default row is saved last.)*)
AskImport(page, rows) ==
  /\ rows \in (Contents \ used) \ Incomplete
  /\ used' = used \cup {rows}
  /\ requests' = Append(requests, Request(page, "import", rows))
  /\ edited' = edited \cup {page}
  /\ overtaken' = IF IsWaitingFor(page, {"remove"}) THEN overtaken \cup {page} ELSE overtaken \ {page}
  /\ UNCHANGED <<record, table, restoring, unsaved>>

(* The driver's transaction on the ledger store.                           *)
RecordAfter(request) ==
  CASE request.kind \in {"save", "import"} -> request.value
    [] request.kind = "remove"             -> Nothing
    [] OTHER                               -> record

(* Variant with a bug: the cleared table is not saved.                     *)
LeaveCleared(request) == <<>>

(* What the page asks once a request of its ledger is settled: after a     *)
(* clear, whether it succeeded or not, the default row is saved.           *)
FollowUp(request) ==
  IF request.kind = "remove" THEN Save(request.page, DefaultRow) ELSE <<>>

(* The continuation of each ledger operation in the page, with             *)
(* s5RenderLedgerRows; rows are what was read or written, Nothing if the   *)
(* operation failed.  A default row that a failed restore adds below rows  *)
(* already entered is left out.                                            *)
Continue(request, ok) ==
  LET page == request.page
      rows == IF ~ok THEN Nothing ELSE IF request.kind = "load" THEN record ELSE request.value
  IN  /\ table' = CASE request.kind = "load" ->
                         [table EXCEPT ![page] = IF rows # Nothing THEN Shown(rows)
                                                 ELSE IF @ = Nothing THEN DefaultRow ELSE @]
                    [] request.kind = "import" /\ ok -> [table EXCEPT ![page] = Shown(rows)]
                    [] request.kind = "remove"       -> [table EXCEPT ![page] = DefaultRow]
                    [] OTHER                         -> table
      /\ restoring' = IF request.kind = "load" THEN restoring \ {page} ELSE restoring
      /\ overtaken' = IF request.kind = "remove" /\ ~IsWaitingFor(page, {"import"})
                      THEN overtaken \ {page} ELSE overtaken
      /\ unsaved' = IF request.kind \notin {"save", "import", "remove"} THEN unsaved
                    ELSE IF ok THEN unsaved \ {page} ELSE unsaved \cup {page}
      /\ UNCHANGED <<used, edited>>

===============================================================================
