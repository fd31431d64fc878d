-------------------------- MODULE MCVirtualArchive --------------------------
(* Manifests around every limit of the layout, with 16-bit fields that     *)
(* hold at most 2 and 32-bit fields that hold at most 150.                 *)
EXTENDS VirtualArchive

File(length) == [name |-> 1, size |-> length]

MCSelections ==
  { <<>>,
    <<File(3)>>,
    <<File(0), File(4)>>,                (* an empty file *)
    <<File(0), File(1), File(0)>>,       (* more entries than 16 bits count *)
    <<File(100), File(5), File(1)>>,     (* the third header is far away *)
    <<File(150)>>,                       (* the longest file, far directory *)
    <<File(103)>>,                       (* the directory begins at the limit *)
    <<File(103), File(1), File(2)>>,     (* the second header does *)
    <<[name |-> 104, size |-> 1]>>,      (* the directory is that long *)
    <<File(2), File(151)>>,              (* too long *)
    <<File(-40)>> }

(* The edges of the segments of <<File(0), File(4)>> and some outside *)
MCPositions == {-1, 0, 1, 31, 33, 47, 78, 79, 81, 82, 98, 99, 145, 150, 213,
                214, 400}
=============================================================================
