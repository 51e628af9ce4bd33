------------------------- MODULE RegisterAliasTable -------------------------
(***************************************************************************)
(* The register alias table (src/sim/components/ooo/rat.py): which in-flight *)
(* instruction, named by its reorder buffer tag, will write each register.  *)
(* A commit is [rd, tag] or NoInput; an allocation likewise.                *)
(***************************************************************************)
CONSTANTS Regs,      \* architectural registers
          Tags,      \* reorder buffer tags
          NoTag,     \* mapping of a register without an in-flight writer
          ZeroReg,   \* the hardwired zero register, never renamed
          NoInput    \* a port that is not driven this cycle

VARIABLE alias       \* RegisterAliasTable._map

TypeOK == alias \in [Regs -> Tags \cup {NoTag}]

Init == alias = [r \in Regs |-> NoTag]

-----------------------------------------------------------------------------
(* Combinational lookup.                                                    *)

\* The commit of this very cycle retires the mapping of r.
IsCommitting(r, commit) ==
    commit # NoInput /\ commit.rd = r /\ alias[r] = commit.tag

\* Mutant: a register whose writer commits this very cycle still waits for it.
LookupCommitted(r, commit) == IF r = ZeroReg THEN NoTag ELSE alias[r]

\* The tag a source register waits for, NoTag when its value is ready.
Lookup(r, commit) ==
    IF r = ZeroReg \/ IsCommitting(r, commit) THEN NoTag ELSE alias[r]

-----------------------------------------------------------------------------
(* The clock edge.                                                          *)

Flush == alias' = [r \in Regs |-> NoTag]

\* Mutant: a commit frees the mapping of its register whoever holds it.
FreedByAny(commit) ==
    IF commit # NoInput /\ commit.rd # ZeroReg
    THEN [alias EXCEPT ![commit.rd] = NoTag]
    ELSE alias

\* A commit frees the mapping unless a later instruction took the register.
Freed(commit) ==
    IF commit # NoInput /\ commit.rd # ZeroReg /\ alias[commit.rd] = commit.tag
    THEN [alias EXCEPT ![commit.rd] = NoTag]
    ELSE alias

Advance(commit, alloc) ==
    alias' = IF alloc # NoInput /\ alloc.rd # ZeroReg
             THEN [Freed(commit) EXCEPT ![alloc.rd] = alloc.tag]
             ELSE Freed(commit)
=============================================================================
