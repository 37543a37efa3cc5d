---------------------------- MODULE MCCatalogSync ----------------------------
(***************************************************************************)
(* An instance of CatalogSync for TLC: two events of Ticketscloud in two   *)
(* cities, one of Teplohod outside its default city.                       *)
(***************************************************************************)
EXTENDS CatalogSync

CONSTANTS t1, t2, p1, msk, spb

MCEvents == {t1, t2, p1}
MCSource == [e \in MCEvents |-> IF e = p1 THEN "TEP" ELSE "TC"]
MCHome == [e \in MCEvents |-> IF e = t1 THEN msk ELSE spb]

Scene(manual, failures, moving) ==
  [manual |-> manual, failures |-> failures, moving |-> moving,
   hourly |-> FALSE, readers |-> FALSE]

MCScenes ==
  {[Scene({}, {}, {"TC", "TEP"}) EXCEPT !.hourly = TRUE],
   [Scene({}, {}, {"TC", "TEP"}) EXCEPT !.readers = TRUE],
   [Scene({}, {"throw", "redis", "restart"}, {}) EXCEPT !.readers = TRUE],
   [Scene({}, {"slow"}, {"TEP"}) EXCEPT !.readers = TRUE],
   Scene({}, {"feed", "slow", "hang", "restart"}, {}),
   [Scene({}, {"throw", "hang"}, {}) EXCEPT !.hourly = TRUE],
   Scene({"manualTep"}, {"feed"}, {"TEP"}),
   Scene({"manualTc"}, {}, {}),
   [Scene({"manualAll"}, {}, {"TEP"}) EXCEPT !.readers = TRUE],
   Scene({"manualAll"}, {"throw"}, {})}

\* Nothing goes wrong, and one feed changes.
QuietScenes == {Scene({}, {}, {"TC"})}
=============================================================================
