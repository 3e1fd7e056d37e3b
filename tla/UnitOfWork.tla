------------------------------ MODULE UnitOfWork ------------------------------
(***************************************************************************)
(* How a session of the ORM writes a row.  Sessions keep their images over *)
(* a commit (expire_on_commit is off), and an UPDATE names only the        *)
(* columns whose value differs from the image loaded into the session,     *)
(* whatever the row holds by the time the statement runs.                  *)
(***************************************************************************)

Flush(loaded, target, row) ==
    [f \in DOMAIN row |-> IF target[f] = loaded[f] THEN row[f] ELSE target[f]]
=============================================================================
