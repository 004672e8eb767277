---------------------------- MODULE MCFileCache ----------------------------
EXTENDS FileCache, TLC

CONSTANTS k1, k2, k3

Conf(room, keys, asked, sizes, min_uses, max_size, allow) ==
  [room |-> room, keys |-> keys, asked |-> asked, sizes |-> sizes,
   min_uses |-> min_uses, max_size |-> max_size, allow |-> allow]

\* Files of two sizes; errors; a zone that is too small, by one or more; an
\* entry that is cached when it is asked for the second time.
MCConfs ==
  {Conf(2, {k1}, {k1}, {1, 2}, 1, 2, {"bypass", "abort"}),
   Conf(2, {k1}, {k1}, {1}, 1, 1, {"errors", "rename fails"}),
   Conf(1, {k1, k2}, {k1, k2}, {1}, 1, 1, {}),
   Conf(1, {k1, k2}, {k2}, {1}, 1, 1, {"crash"}),
   Conf(2, {k1, k2}, {k3}, {1}, 1, 9, {}),
   Conf(2, {k1}, {k1}, {1}, 2, 5, {"errors", "bad file", "bypass", "abort"})}

Symmetric == Permutations(Requests) \cup Permutations(Nodes)
=============================================================================
