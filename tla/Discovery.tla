----------------------------- MODULE Discovery -----------------------------
(***************************************************************************)
(* How the archived backfill finds the pools it will ask the node about    *)
(* (archive-ts/scripts/backfill.ts discoverWhitelistedPools,               *)
(* discoverV4Pools): scan the events that create pools, a range of blocks  *)
(* at a time, keep those with a watched token, add them to the table and   *)
(* read the table back.                                                    *)
(*                                                                         *)
(* A pool is named by the block that created it, and every block has one.  *)
(* The two discoveries differ in the events and the table; an instance is  *)
(* one of them.  Workers beyond the number of ranges, which the code does  *)
(* not start, end at once.                                                 *)
(***************************************************************************)
EXTENDS Integers, FiniteSets

CONSTANTS
    Scanner,        \* DISCOVERY_CONCURRENCY
    MaxTo,          \* bound: the last block, counted from the first
    MaxStep,        \* bound: DISCOVERY_STEP
    MaxScanFaults   \* bound: calls of the node or of the database that fail

ASSUME DiscoveryAssumption ==
    /\ IsFiniteSet(Scanner) /\ Scanner # {}
    /\ MaxTo \in Nat /\ MaxStep \in Nat /\ MaxScanFaults \in Nat

VARIABLES
    scanTo,   \* toBlock, fixed
    step,     \* DISCOVERY_STEP, fixed
    wanted,   \* pools with a watched token, or of two base tokens
    dump,     \* rows of the table at the start: a restored dump, and what a listener stored
    cursor,   \* ranges taken
    scanner,  \* worker -> where it is, and on which range
    found,    \* results
    missed,   \* history: ranges whose scan failed
    poolRows, \* rows of the table
    listed,   \* the pools handed to the main loop
    scanPc,
    scanFaults

scanVars == <<scanTo, step, wanted, dump, cursor, scanner, found, missed, poolRows,
              listed, scanPc, scanFaults>>

Block == 0..scanTo

\* buildRanges: both ends belong to a range.
RangeCount == scanTo \div (step + 1) + 1

\* Mutant: the last block of a range is left out.
HalfOpenRange(i) == {b \in Block : i * (step + 1) <= b /\ b < i * (step + 1) + step}

RangeOf(i) == {b \in Block : i * (step + 1) <= b /\ b <= i * (step + 1) + step}

ScanTypeOK ==
    /\ scanTo \in 0..MaxTo /\ step \in 0..MaxStep
    /\ wanted \subseteq Block
    /\ dump \subseteq Block /\ found \subseteq Block
    /\ poolRows \subseteq Block /\ listed \subseteq Block
    /\ cursor \in 0..(RangeCount + Cardinality(Scanner))
    /\ scanner \in [Scanner -> [pc : {"start", "scan", "done"}, range : 0..RangeCount]]
    /\ missed \subseteq 0..(RangeCount - 1)
    /\ scanPc \in {"scan", "upsert", "select", "end", "dead"}
    /\ scanFaults \in 0..MaxScanFaults

ScanInit ==
    /\ scanTo \in 0..MaxTo /\ step \in 0..MaxStep
    /\ wanted \in SUBSET Block
    /\ dump \in SUBSET Block
    /\ poolRows = dump
    /\ cursor = 0 /\ found = {} /\ missed = {} /\ listed = {}
    /\ scanner = [w \in Scanner |-> [pc |-> "start", range |-> 0]]
    /\ scanPc = "scan" /\ scanFaults = 0

-----------------------------------------------------------------------------
ScanFault == scanFaults < MaxScanFaults /\ scanFaults' = scanFaults + 1

\* concurrentScan: the loop of a worker up to its next await.
TakeRange(w) ==
    /\ cursor' = cursor + 1
    /\ scanner' = [scanner EXCEPT ![w] =
                     IF cursor < RangeCount THEN [pc |-> "scan", range |-> cursor]
                                            ELSE [pc |-> "done", range |-> 0]]

StartScan(w) ==
    /\ scanner[w].pc = "start"
    /\ TakeRange(w)
    /\ UNCHANGED <<scanTo, step, wanted, dump, found, missed, poolRows, listed, scanPc,
                   scanFaults>>

\* The events of a range, filtered; a scan that fails is logged and not tried again.
ScanRange(w) ==
    /\ scanner[w].pc = "scan"
    /\ \/ /\ found' = found \cup (RangeOf(scanner[w].range) \cap wanted)
          /\ UNCHANGED <<missed, scanFaults>>
       \/ /\ ScanFault
          /\ missed' = missed \cup {scanner[w].range}
          /\ UNCHANGED found
    /\ TakeRange(w)
    /\ UNCHANGED <<scanTo, step, wanted, dump, poolRows, listed, scanPc>>

ScanDone ==
    /\ scanPc = "scan" /\ \A w \in Scanner : scanner[w].pc = "done"
    /\ scanPc' = IF found = {} THEN "select" ELSE "upsert"
    /\ UNCHANGED <<scanTo, step, wanted, dump, cursor, scanner, found, missed, poolRows,
                   listed, scanFaults>>

\* bulkUpsertPools, bulkUpsertV4Pools, in chunks: an error ends the program.
UpsertFound ==
    /\ scanPc = "upsert"
    /\ \/ /\ poolRows' = poolRows \cup found
          /\ scanPc' = "select" /\ UNCHANGED scanFaults
       \/ /\ ScanFault
          /\ \E part \in SUBSET found : poolRows' = poolRows \cup part
          /\ scanPc' = "dead"
    /\ UNCHANGED <<scanTo, step, wanted, dump, cursor, scanner, found, missed, listed>>

\* The table is read back: the rows of the dump and what was found.
SelectPools ==
    /\ scanPc = "select"
    /\ \/ listed' = poolRows /\ scanPc' = "end" /\ UNCHANGED scanFaults
       \/ ScanFault /\ scanPc' = "dead" /\ UNCHANGED listed
    /\ UNCHANGED <<scanTo, step, wanted, dump, cursor, scanner, found, missed, poolRows>>

ScanStep(w) == StartScan(w) \/ ScanRange(w)

ScanNext ==
    \/ \E w \in Scanner : ScanStep(w)
    \/ ScanDone \/ UpsertFound \/ SelectPools

ScanSpec == ScanInit /\ [][ScanNext]_scanVars

-----------------------------------------------------------------------------
\* A pool that should be scanned for swaps and is not was created in a range whose scan
\* failed; and no other pool joins those of the dump (backfill.ts buildRanges, concurrentScan).
\* The failure is only logged, so the swaps of such a pool are missing in a backfill that
\* ends well.
DiscoveryComplete ==
    scanPc = "end" =>
      /\ listed \subseteq wanted \cup dump
      /\ \A p \in wanted \ listed : \E i \in missed : p \in RangeOf(i)
=============================================================================
