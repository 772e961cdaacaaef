----------------------------- MODULE MCVoxelRay -----------------------------
(* VoxelRay on a small cube. *)
EXTENDS VoxelRay

\* Nothing, the floor, a slope along x, one voxel in the middle.
MCSolids ==
    {{}, {c \in Cells : c["y"] = 0}, {c \in Cells : c["y"] = c["x"]},
     {c \in Cells : \A a \in Axes : c[a] = Tsz \div 2}}
=============================================================================
