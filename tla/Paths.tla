------------------------------- MODULE Paths -------------------------------
(***************************************************************************)
(* How the tools of A4 take the path of their command line apart: util.c   *)
(* from normalize_path to create_path, with memcpy taken to copy upwards.  *)
(* A path is a sequence of characters.                                     *)
(***************************************************************************)
EXTENDS Integers, FiniteSets, FiniteSetsExt, Sequences

Slash == "/"

(* Seeded bug: memcpy starts one character too late.                       *)
DroppedTwo(path, i) ==
  \E j \in {i - 1, i} : j > 1 /\ path[j - 1] = Slash /\ path[j] = Slash
(* Repeated slashes become one.                                            *)
Dropped(path, i) == i > 1 /\ path[i - 1] = Slash /\ path[i] = Slash
Kept(path) ==
  LET upTo[i \in 0..Len(path)] ==
        IF i = 0 THEN <<>>
        ELSE IF Dropped(path, i) THEN upTo[i - 1] ELSE Append(upTo[i - 1], path[i])
  IN upTo
Collapse(path) == Kept(path)[Len(path)]

(* normalize_path; a path of three characters loses the last, whatever it  *)
(* is.                                                                     *)
Normalize(path) == IF Len(path) = 3 THEN SubSeq(path, 1, 2) ELSE Collapse(path)

(* get_path_substr_count: the slashes behind the first, and the end of the *)
(* path if no slash is there.                                              *)
Slashes(path) == {i \in 2..Len(path) : path[i] = Slash}
SubstrCount(path) ==
  Cardinality(Slashes(path)) + (IF path[Len(path)] = Slash THEN 0 ELSE 1)

(* create_path: all components but the last, and what is left, which keeps *)
(* a slash at the end.                                                     *)
FirstParent(path) == SubSeq(path, 2, Min(Slashes(path)) - 1)
Child(path) ==
  LET parents == SubstrCount(path) - 1
      nth == {i \in Slashes(path) : Cardinality({j \in Slashes(path) : j <= i}) = parents}
  IN SubSeq(path, Max({1} \cup nth) + 1, Len(path))

(* A path that the tools go on with, and what they make of it.  Without a  *)
(* component there is nothing that parent_path could point to.             *)
Valid(path) ==
  /\ Len(path) >= 2 /\ path[1] = Slash
  /\ SubstrCount(Normalize(path)) >= 1
OneLevel(path) == SubstrCount(Normalize(path)) = 1
ParentName(path) == FirstParent(Normalize(path))
ChildName(path) == Child(Normalize(path))
=============================================================================
