--------------------------- MODULE MCExportImport ---------------------------
(***************************************************************************)
(* A source that hands out two or three ids, full and filtered exports,    *)
(* and imports that refuse or allow what the flags are about.              *)
(***************************************************************************)
EXTENDS ExportImport

CONSTANTS k1, h1, fixed

MCTimes == 0..1
MCMarks == {[op |-> "process", ids |-> {1}, processed |-> TRUE, resolution |-> fixed]}

Full == [family |-> Null, since |-> Null]
OneFamily == [family |-> "keyed", since |-> Null]
Recent == [family |-> Null, since |-> 1]
MCFilters == {Full, OneFamily, Recent}

Flags(nonEmpty, partial, families, reserve) ==
    [nonEmpty |-> nonEmpty, partial |-> partial, families |-> families, reserve |-> reserve]
MCOptions == {Flags(FALSE, FALSE, {}, 0), Flags(TRUE, TRUE, {"friction"}, 0),
              Flags(TRUE, FALSE, {}, 2)}
============================================================================
