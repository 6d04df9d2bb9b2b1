------------------------------- MODULE RealPath -------------------------------
(***************************************************************************)
(* vde_realpath (src/utils/canonicalize.c): the absolute name, free of     *)
(* ".", ".." and symbolic links, of the directory of the control socket.   *)
(*                                                                         *)
(* A name is a sequence of components and whether it starts with "/"; an   *)
(* empty component stands between two slashes or after the last one.       *)
(* resolved up to dest is the sequence of components copied so far.  A     *)
(* tree gives absolute names (without the slashes) the files they name.    *)
(* Lengths are counted in components.                                      *)
(***************************************************************************)
EXTENDS Integers, Sequences, FiniteSets

CONSTANTS
  PathName,      \* the names that may be resolved: [abs, comps]
  Tree,          \* the file systems they are resolved in
  Cwd,           \* the working directory
  MAXSYMLINKS,
  PATH_MAX

\* Components hold no slash.
Component == STRING \ {"/"}

\* The working directory can be reached from the root.
ASSUME PathAssumption ==
  /\ Cwd \in Seq(Component)
  /\ \A n \in PathName : n.comps \in Seq(Component)
  /\ \A t \in Tree :
       /\ IsFiniteSet(DOMAIN t) /\ DOMAIN t \subseteq Seq(Component)
       /\ \A p \in DOMAIN t : t[p].comps \in Seq(Component)
       /\ \A n \in 0 .. Len(Cwd) : LET p == SubSeq(Cwd, 1, n)
                                   IN p \in DOMAIN t /\ t[p].kind = "dir" /\ t[p].search

VARIABLES
  tree,          \* the file system
  name,          \* the argument
  walk,          \* where the function is; in the end "resolved" or "failed"
  rest,          \* the components from end on
  resolved,      \* the components before dest
  num_links,
  errno

pathVars == <<tree, name, walk, rest, resolved, num_links, errno>>

Up(p) == IF p = << >> THEN p ELSE SubSeq(p, 1, Len(p) - 1)
Searchable(p) == p \in DOMAIN tree /\ tree[p].kind = "dir" /\ tree[p].search

PathInit == /\ tree \in Tree /\ name \in PathName
            /\ walk = "call" /\ rest = << >> /\ resolved = << >>
            /\ num_links = 0 /\ errno = "none"

Fail(e) == walk' = "failed" /\ errno' = e /\ UNCHANGED <<tree, name, rest>>

-------------------------------------------------------------------------------
\* Empty names, memory and a working directory that is gone.
CallFails == /\ walk = "call"
             /\ \/ ~ name.abs /\ name.comps = << >> /\ Fail("ENOENT")
                \/ Fail("ENOMEM")
                \/ ~ name.abs /\ Fail("cwd")
             /\ UNCHANGED <<resolved, num_links>>

Call == /\ walk = "call" /\ (name.abs \/ name.comps # << >>)
        /\ resolved' = IF name.abs THEN << >> ELSE Cwd
        /\ rest' = name.comps /\ walk' = "next"
        /\ UNCHANGED <<tree, name, num_links, errno>>

NextIs(components) == walk = "next" /\ rest # << >> /\ Head(rest) \in components

\* A repeated slash, or ".".
Skip == /\ NextIs({"", "."})
        /\ rest' = Tail(rest)
        /\ UNCHANGED <<tree, name, walk, resolved, num_links, errno>>

\* Mutation of Back: only the last character, the slash, is dropped.
BackToSlash == /\ NextIs({".."})
               /\ rest' = Tail(rest)
               /\ UNCHANGED <<tree, name, walk, resolved, num_links, errno>>

Back == /\ NextIs({".."})
        /\ rest' = Tail(rest) /\ resolved' = Up(resolved)
        /\ UNCHANGED <<tree, name, walk, num_links, errno>>

Ordinary == walk = "next" /\ rest # << >> /\ Head(rest) \notin {"", ".", ".."}

TooLong == /\ Ordinary /\ Len(resolved) + 1 >= PATH_MAX
           /\ Fail("ENAMETOOLONG")
           /\ UNCHANGED <<resolved, num_links>>

\* The component is copied and lstat called.
Copy == /\ Ordinary /\ Len(resolved) + 1 < PATH_MAX
        /\ resolved' = Append(resolved, Head(rest)) /\ rest' = Tail(rest)
        /\ walk' = "stat"
        /\ UNCHANGED <<tree, name, num_links, errno>>

Missing == /\ walk = "stat" /\ resolved \notin DOMAIN tree
           /\ Fail("ENOENT")
           /\ UNCHANGED <<resolved, num_links>>

IsLink == walk = "stat" /\ resolved \in DOMAIN tree /\ tree[resolved].kind = "link"

LinkFails == /\ IsLink
             /\ \/ num_links + 1 > MAXSYMLINKS /\ Fail("ELOOP")
                \/ /\ num_links + 1 <= MAXSYMLINKS
                   /\ Len(tree[resolved].comps) + Len(rest) >= PATH_MAX
                   /\ Fail("ENAMETOOLONG")
             /\ num_links' = num_links + 1
             /\ UNCHANGED resolved

\* Mutation of Follow: links are not counted.
FollowUncounted == /\ IsLink
                   /\ Len(tree[resolved].comps) + Len(rest) < PATH_MAX
                   /\ rest' = tree[resolved].comps \o rest
                   /\ resolved' = IF tree[resolved].abs THEN << >> ELSE Up(resolved)
                   /\ walk' = "next"
                   /\ UNCHANGED <<tree, name, num_links, errno>>

\* The name the link holds goes in front of what is still to come.
Follow == /\ IsLink /\ num_links + 1 <= MAXSYMLINKS
          /\ Len(tree[resolved].comps) + Len(rest) < PATH_MAX
          /\ num_links' = num_links + 1
          /\ rest' = tree[resolved].comps \o rest
          /\ resolved' = IF tree[resolved].abs THEN << >> ELSE Up(resolved)
          /\ walk' = "next"
          /\ UNCHANGED <<tree, name, errno>>

IsOther == walk = "stat" /\ resolved \in DOMAIN tree /\ tree[resolved].kind # "link"

\* Something follows a file that is no directory, or one that may not be searched.
Blocked == /\ IsOther /\ rest # << >> /\ ~ Searchable(resolved)
           /\ Fail(IF tree[resolved].kind = "dir" THEN "EACCES" ELSE "ENOTDIR")
           /\ UNCHANGED <<resolved, num_links>>

Enter == /\ IsOther /\ (rest = << >> \/ Searchable(resolved))
         /\ walk' = "next"
         /\ UNCHANGED <<tree, name, rest, resolved, num_links, errno>>

Arrive == /\ walk = "next" /\ rest = << >>
          /\ walk' = "resolved"
          /\ UNCHANGED <<tree, name, rest, resolved, num_links, errno>>

PathNext == \/ CallFails \/ Call \/ Skip \/ Back \/ TooLong \/ Copy \/ Missing
            \/ LinkFails \/ Follow \/ Blocked \/ Enter \/ Arrive

-------------------------------------------------------------------------------
(* What a name means, link by link: the file system's own answer *)

Nowhere == <<"/">>   \* a name that no file has
Links == {p \in DOMAIN tree : tree[p].kind = "link"}

\* The file at p, where links lead as v says.
Leads(v, p) == IF p \notin DOMAIN tree THEN Nowhere ELSE IF p \in Links THEN v[p] ELSE p

\* Component h of a name, in directory dir.
There(v, dir, h) == IF ~ Searchable(dir) THEN Nowhere
                    ELSE CASE h \in {"", "."} -> dir
                           [] h = ".." -> Up(dir)
                           [] OTHER -> Leads(v, Append(dir, h))

\* The file that components name from directory dir.
Reach(v, dir, components) ==
  LET at[i \in 0 .. Len(components)] == IF i = 0 THEN dir
                                        ELSE There(v, at[i - 1], components[i])
  IN at[Len(components)]

\* Where each link leads, as far as links to links nest at most depth deep.
LinkMeans[depth \in 0 .. Cardinality(Links)] ==
  [p \in Links |-> IF depth = 0 THEN Nowhere
                   ELSE Reach(LinkMeans[depth - 1], IF tree[p].abs THEN << >> ELSE Up(p),
                              tree[p].comps)]

\* What components in place of those of the argument mean.
Named(components) == Reach(LinkMeans[Cardinality(Links)], IF name.abs THEN << >> ELSE Cwd,
                           components)

Meant == Named(name.comps)

\* The name vde_realpath returns is the one the file system would resolve its
\* argument to, and where it gives up for another reason than a limit or a lack of
\* memory, the file system resolves it to nothing: links spliced into the rest of
\* the name, dots after links and files in the middle of it included.
ResolvesAsTheSystem ==
  /\ walk = "resolved" => resolved = Meant
  /\ errno \in {"ENOENT", "ENOTDIR", "EACCES"} /\ name.comps # << >> => Meant = Nowhere
===============================================================================
