--------------------------- MODULE BrokerIterator ---------------------------
(***************************************************************************)
(* A scan of the shared store through its broker, page by page, while      *)
(* others write: buildIteratorPage (cliAuthorityBrokerServer.ts) rebuilds  *)
(* the whole range for every page and looks for the row the last page      *)
(* ended with, the client's iterator (cliAuthorityBrokerClient.ts) asks    *)
(* for page after page, and the iterator of connectCliAuthorityBroker      *)
(* (localRuntimeAuthority.ts) starts again behind the last row it yielded, *)
(* once, when the broker becomes unavailable.                              *)
(*                                                                         *)
(* Keys are numbers.  The range is the whole store and options.limit is    *)
(* not given.                                                              *)
(***************************************************************************)
EXTENDS Naturals, Sequences, FiniteSets

CONSTANTS
  Keys,       \* the keys of the range
  PageSize,   \* iteratorPageSize
  MaxWrites   \* bound: rows others insert or delete meanwhile

ASSUME ScanAssumption ==
  /\ Keys \subseteq Nat \ {0} /\ IsFiniteSet(Keys)
  /\ PageSize \in Nat \ {0} /\ MaxWrites \in Nat

NoKey == 0   \* no key

VARIABLES
  rows,       \* the keys in the store
  reverse,    \* options.reverse
  bound,      \* lastYieldedKey of the interrupted scan, which this one resumes
  skip,       \* skipResumeKey
  cursor,     \* nextCursor of the last page
  page,       \* entries fetched and not yet yielded
  last,       \* that page was the last
  yielded,    \* what the caller got
  recovered,  \* the broker was unavailable once
  scan,       \* "running", "done", "failed"
  writes,     \* writes of others so far
  steady,     \* rows there from the start
  lostCursor  \* the row a page ended with was deleted

scanVars == <<bound, skip, cursor, page, last, yielded, recovered, scan>>
iterVars == <<scanVars, rows, reverse, writes, steady, lostCursor>>

ScanInit ==
  /\ rows \in SUBSET Keys /\ steady = rows
  /\ reverse \in BOOLEAN
  /\ bound = NoKey /\ skip = FALSE /\ cursor = NoKey /\ page = <<>> /\ last = FALSE
  /\ yielded = <<>> /\ recovered = FALSE /\ scan = "running"
  /\ writes = 0 /\ lostCursor = FALSE

(* k comes before l in the order of the scan. *)
Before(k, l) == IF reverse THEN k > l ELSE k < l

(* The rows the store's own iterator gives for activeOptions: from the      *)
(* resumed key on, which a forward scan includes (gte) and a reverse one    *)
(* does not (lt).                                                           *)
InRange(k) ==
  \/ bound = NoKey
  \/ Before(bound, k)
  \/ k = bound /\ ~reverse

Ordered(S) ==
  CHOOSE s \in [1..Cardinality(S) -> S] :
    \A i, j \in DOMAIN s : i < j => Before(s[i], s[j])

Row(s, k) == IF k \in {s[i] : i \in DOMAIN s} THEN CHOOSE i \in DOMAIN s : s[i] = k ELSE 0

(* The page behind the cursor; a cursor that is not found (findIndex -1)    *)
(* stands for the start.                                                    *)
StartIndex(s) == IF cursor = NoKey THEN 0 ELSE Row(s, cursor)
Entries(s) ==
  LET end == StartIndex(s) + PageSize
  IN  SubSeq(s, StartIndex(s) + 1, IF end < Len(s) THEN end ELSE Len(s))

FetchPage ==
  /\ scan = "running" /\ page = <<>> /\ ~last
  /\ LET s == Ordered({k \in rows : InRange(k)})
         e == Entries(s)
     IN  /\ page' = e
         /\ last' = (e = <<>> \/ StartIndex(s) + Len(e) >= Len(s))
         /\ cursor' = IF e = <<>> THEN NoKey ELSE e[Len(e)]
  /\ UNCHANGED <<bound, skip, yielded, recovered, scan, rows, reverse, writes, steady, lostCursor>>

LastYielded == IF yielded = <<>> THEN NoKey ELSE yielded[Len(yielded)]

YieldSkipsBlindly ==   \* mutant: passes over the first row whichever it is
  /\ scan = "running" /\ page # <<>>
  /\ yielded' = IF skip THEN yielded ELSE Append(yielded, Head(page))
  /\ page' = Tail(page) /\ skip' = FALSE
  /\ UNCHANGED <<bound, cursor, last, recovered, scan, rows, reverse, writes, steady, lostCursor>>

(* The caller takes the next row; the one a resumed scan starts with is     *)
(* passed over.                                                             *)
Yield ==
  /\ scan = "running" /\ page # <<>>
  /\ yielded' = IF skip /\ Head(page) = LastYielded THEN yielded ELSE Append(yielded, Head(page))
  /\ page' = Tail(page) /\ skip' = FALSE
  /\ UNCHANGED <<bound, cursor, last, recovered, scan, rows, reverse, writes, steady, lostCursor>>

EndScan ==
  /\ scan = "running" /\ page = <<>> /\ last
  /\ scan' = "done"
  /\ UNCHANGED <<bound, skip, cursor, page, last, yielded, recovered, rows, reverse, writes,
                 steady, lostCursor>>

InterruptedRepeats ==   \* mutant: the row to resume at is yielded again
  /\ scan = "running" /\ page = <<>> /\ ~last
  /\ IF recovered
     THEN scan' = "failed" /\ UNCHANGED <<recovered, bound, cursor>>
     ELSE /\ recovered' = TRUE /\ cursor' = NoKey
          /\ bound' = LastYielded
          /\ UNCHANGED scan
  /\ UNCHANGED <<skip, page, last, yielded, rows, reverse, writes, steady, lostCursor>>

(* The broker does not answer for the next page. *)
Interrupted ==
  /\ scan = "running" /\ page = <<>> /\ ~last
  /\ IF recovered
     THEN scan' = "failed" /\ UNCHANGED <<recovered, bound, skip, cursor>>
     ELSE /\ recovered' = TRUE /\ cursor' = NoKey
          /\ bound' = LastYielded
          /\ skip' = (LastYielded # NoKey /\ ~reverse)
          /\ UNCHANGED scan
  /\ UNCHANGED <<page, last, yielded, rows, reverse, writes, steady, lostCursor>>

(* Others write. *)
Insert(k) ==
  /\ scan = "running" /\ writes < MaxWrites /\ k \notin rows
  /\ rows' = rows \cup {k} /\ writes' = writes + 1
  /\ UNCHANGED <<scanVars, reverse, steady, lostCursor>>

Delete(k) ==
  /\ scan = "running" /\ writes < MaxWrites /\ k \in rows
  /\ rows' = rows \ {k} /\ writes' = writes + 1 /\ steady' = steady \ {k}
  /\ lostCursor' = (lostCursor \/ k = cursor)
  /\ UNCHANGED <<scanVars, reverse>>

ScanNext ==
  \/ FetchPage \/ Yield \/ EndScan \/ Interrupted
  \/ \E k \in Keys : Insert(k) \/ Delete(k)

ScanSpec == ScanInit /\ [][ScanNext]_iterVars

-----------------------------------------------------------------------------
(* Properties *)

(* Every variable has its type. *)
ScanTypeOK ==
  /\ steady \subseteq rows /\ rows \subseteq Keys
  /\ {bound, cursor} \subseteq Keys \cup {NoKey}
  /\ {reverse, skip, last, recovered, lostCursor} \subseteq BOOLEAN
  /\ {page, yielded} \subseteq Seq(Keys)
  /\ scan \in {"running", "done", "failed"} /\ writes \in 0..MaxWrites

(* Rows come in order and each once, pages, writes of others and a change   *)
(* of the broker notwithstanding - unless the row a page ended with was     *)
(* deleted before the next page, which starts the scan over.                *)
EachRowOnce ==
  lostCursor \/ \A i, j \in DOMAIN yielded : i < j => Before(yielded[i], yielded[j])

(* A scan that ends has yielded every row that was there all along. *)
NoRowSkipped ==
  scan = "done" => steady \subseteq {yielded[i] : i \in DOMAIN yielded}
=============================================================================
