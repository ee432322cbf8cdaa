---------------------------- MODULE MCCodeCache ----------------------------
(***************************************************************************)
(* Small instances of CodeCache for TLC.  A page holds PageSize units of   *)
(* storage; every size is a number of such units.                          *)
(***************************************************************************)
EXTENDS CodeCache

code(n) == <<"code", n>>
data(n) == <<"data", n>>
mark    == <<"mark", 1>>

\* A small function, one with a constant, two that mark offsets (the
\* second fills the debug buffer), one that needs two pages and one that needs
\* more than a block can have.
MCProgram == { <<code(1)>>,
               <<code(1), data(1), code(1)>>,
               <<code(1), mark, code(2)>>,
               <<code(1), mark, mark, code(1)>>,
               <<code(3), code(4)>>,
               <<code(9), code(2)>> }
=============================================================================
