------------------------------ MODULE Journal ------------------------------
(***************************************************************************)
(* ledger.service.ts: the numbers postEntry() gives the journal entries of *)
(* all hotels, and the amounts they carry.  A number is chosen in one      *)
(* await and inserted in the next: each hotel counts for itself, and       *)
(* entryNo is unique in the whole table.  An entry has two equal lines, so *)
(* one amount stands for it, added up by what it was posted for.           *)
(***************************************************************************)
EXTENDS Integers, FiniteSetsExt

CONSTANTS Hotels,
          Accounts,   \* what entries are posted for
          PadMax      \* greatest number that fits the padding: 9999 in the code

ASSUME JournalAssumption == Hotels # {} /\ PadMax \in Nat \ {0}

Sources == {"PAYMENT", "INVOICE", "FOLIO"}

VARIABLES
  entries,   \* the hotel and the number of every entry
  posted     \* the sum of the entries, by source type and account

EntryNosOf(h) == {e.no : e \in {x \in entries : x.hotel = h}}
UsedEntryNos  == {e.no : e \in entries}

(* findFirst ordered by entryNo, which is text: JE-2026-9999 sorts after   *)
(* JE-2026-10000.                                                          *)
LastEntryNo(h) ==
  IF PadMax \in EntryNosOf(h) THEN PadMax ELSE Max(EntryNosOf(h) \cup {0})

NextEntryNo(h) == LastEntryNo(h) + 1

(* The insert of postEntry; it throws when the number is in use.           *)
CreateEntry(h, no, src, a, amount) ==
  /\ no \notin UsedEntryNos
  /\ entries' = entries \cup {[hotel |-> h, no |-> no]}
  /\ posted' = [posted EXCEPT ![src][a] = @ + amount]
=============================================================================
