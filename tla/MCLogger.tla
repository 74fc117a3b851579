------------------------------ MODULE MCLogger ------------------------------
(* Logger with page bodies of 4 cells, record headers of 2 cells and values *)
(* of 0, 1 or 3 cells: a header can share a page with the previous record, *)
(* a 3-cell value spills onto a new page, and three records of a session   *)
(* already reach the threshold that starts TruncateLogs.                   *)
EXTENDS Logger

MCVsChoices == {<<>>, <<1>>, <<3>>}
=============================================================================
