-------------------------- MODULE MCPlatformPosts --------------------------
(***************************************************************************)
(* PlatformPosts for TLC: two origins that share the post p1.              *)
(***************************************************************************)
EXTENDS PlatformPosts

CONSTANTS p1, o1

SharedReposts == [o \in Origins |-> IF o = o1 THEN Posts ELSE {p1}]
=============================================================================
