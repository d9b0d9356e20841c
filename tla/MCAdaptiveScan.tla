--------------------------- MODULE MCAdaptiveScan ---------------------------
(***************************************************************************)
(* Seven pre-census dates over three years and one reference frame, scanned *)
(* three picks at a time.                                                  *)
(***************************************************************************)
EXTENDS InstallDates

MCDates == 1..7 \cup {9}
MCCensus == 8
\* Year 10 holds date 1, year 11 date 2, year 12 the dates 3-9.
MCYearOf == [d \in MCDates |-> IF d < 3 THEN 9 + d ELSE 12]

\* Catalogs that stay, of every shape; and four, with a reference frame in two
\* of them, that turn into one another between the runs of a scan.
MCRedrawn == {{1, 3, 4, 6, 7, 9}, {1, 3, 5, 6, 7, 9}, {9}, {2, 4, 6}}
MCCatalogs == SUBSET (1..6) \cup {1..7} \cup MCRedrawn

=============================================================================
