----------------------------- MODULE MCNetList ------------------------------
(* NetList with names of ten characters: short replies of every form, and *)
(* lines around the lengths at which a name is cut or the menu is widened. *)
EXTENDS NetList, Functions

Page(len, nl, clean) == [len |-> len, nl |-> nl, clean |-> clean, version |-> Invalid]

(* The lines of a reply, the last one with or without its newline. *)
LineEnd(lens, k) == k + FoldFunctionOnSet(+, 0, lens, 1 .. k)
Lines(lens) ==
  LET len == LineEnd(lens, Len(lens))
      nl  == {LineEnd(lens, k) : k \in DOMAIN lens}
  IN  {Page(len, nl, TRUE), Page(len - 1, nl \ {len}, TRUE)}

MCReplies ==
  UNION {{Page(n, nl, TRUE) : nl \in SUBSET (1 .. n)} : n \in 0 .. 4}
  \cup {Page(3, {3}, FALSE)}
  \cup UNION {Lines(<<k, l>>) : k, l \in {1, 8, 9, 10, 11}}
  \cup UNION {Lines(<<j, k, l>>) : j, k, l \in {1, 9}}
  \cup Lines(<<22>>)

(* "X" and a version: shorter than the buffer of net_checkupdate(), as long *)
(* as it expects, followed by a newline, and with a digit more.             *)
Release(len, v) == [Page(len, {}, TRUE) EXCEPT !.version = v]

MCReleases ==
  {Page(0, {}, TRUE), Release(4, 711),
   Release(5, Invalid), Release(5, CNODE_BUILD_VERSION),
   Release(6, CNODE_BUILD_VERSION + 1), Release(6, 10 * CNODE_BUILD_VERSION)}

MCTimeouts == {0, 15}
=============================================================================
