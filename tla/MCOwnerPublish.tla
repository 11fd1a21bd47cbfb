--------------------------- MODULE MCOwnerPublish ---------------------------
(* A small instance of OwnerPublish: two trading dates, scans that accept     *)
(* nothing or one of two events, one value for the fetched macro row.         *)
EXTENDS OwnerPublish

MCDays == 1..2
MCOneDay == {1}
MCScans == {{}, {11}, {12}}
MCVersions == {1}

============================================================================
