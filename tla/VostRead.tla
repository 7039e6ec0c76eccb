------------------------------- MODULE VostRead -------------------------------
(***************************************************************************)
(* The read operations of a snapshot: listing, walking, glob matching and  *)
(* reading a range of a file (fs.cpp, tree.cpp, glob.cpp), on every tree   *)
(* the write operations of VostFs make.                                    *)
(*                                                                         *)
(* A name is spelt as a sequence of characters; a segment of a pattern is  *)
(* a sequence of tokens, each standing for the characters it takes.        *)
(***************************************************************************)
EXTENDS VostFs

CONSTANTS
    Spelling,    \* the characters of each name
    Patterns,    \* glob patterns: sequences of segments
    SizeOf,      \* the number of bytes of each blob
    SizeMax      \* SIZE_MAX, one less than the modulus of size_t

ASSUME ReadAssumption == SizeMax \in Nat /\ SizeOf \in [Data -> 0 .. SizeMax]

(* Tokens: a character, a class, a negated class, ? and *.                 *)
Lit(c) == [kind |-> "in", chars |-> {c}]
OneOf(cs) == [kind |-> "in", chars |-> cs]
NoneOf(cs) == [kind |-> "out", chars |-> cs]
Question == [kind |-> "out", chars |-> {}]
Star == [kind |-> "star", chars |-> {}]
Token == [kind : {"in", "out"}, chars : SUBSET STRING] \cup {Star}

DoubleStar == <<Star, Star>>

ASSUME GlobAssumption ==
    /\ \A n \in Name : Spelling[n] \in Seq(STRING)
    /\ Patterns \subseteq Seq(Seq(Token))

-----------------------------------------------------------------------------
(* list_tree: names in a directory; ls, listdir, exists and is_dir.        *)
ListTree(d) == {Last(p) : p \in {q \in Path : Len(q) = Len(d) + 1 /\ Front(q) = d
                                              /\ tree[q] # NoEntry}}

(* Mistaken: the paths are relative to the directory that is walked.       *)
WalkWithoutPrefix(d) ==
    LET subdirs(q) == {n \in ListTree(q) : tree[Append(q, n)] = DirEntry}
        walk[q \in Path \cup {Root}] ==
            {[dirpath |-> SubSeq(q, Len(d) + 1, Len(q)), dirnames |-> subdirs(q),
              files |-> ListTree(q) \ subdirs(q)]}
            \cup UNION {walk[Append(q, n)] : n \in subdirs(q)}
    IN walk[d]

(* walk_tree_dirs: every directory at or below d with its subdirectories   *)
(* and its files.                                                          *)
WalkTreeDirs(d) ==
    LET subdirs(q) == {n \in ListTree(q) : tree[Append(q, n)] = DirEntry}
        walk[q \in Path \cup {Root}] ==
            {[dirpath |-> q, dirnames |-> subdirs(q), files |-> ListTree(q) \ subdirs(q)]}
            \cup UNION {walk[Append(q, n)] : n \in subdirs(q)}
    IN walk[d]

(* Fs::ls with recursive.                                                  *)
LsRecursive(d) ==
    UNION {{Append(w.dirpath, n) : n \in w.files} : w \in WalkTreeDirs(d)}

CountSubdirs(d) == Cardinality({n \in ListTree(d) : tree[Append(d, n)] = DirEntry})

(* Fs::stat of a path that is there.                                       *)
Stat(p) ==
    IF Lookup(tree, p) = DirEntry
    THEN [file_type |-> "tree", size |-> 0, nlink |-> 2 + CountSubdirs(p)]
    ELSE [file_type |-> "blob", size |-> SizeOf[tree[p]], nlink |-> 1]

(* read_range and read_by_hash: first and last of the bytes returned, with *)
(* the arithmetic of size_t.  NoSize is a size that is not given.          *)
NoSize == SizeMax + 1

MinOf(a, b) == IF a <= b THEN a ELSE b

(* Mistaken: the sum may wrap around.                                      *)
WrappingRange(length, offset, sz) ==
    LET start == MinOf(offset, length)
        end == IF sz = NoSize THEN length ELSE MinOf((start + sz) % (SizeMax + 1), length)
    IN [start |-> start, end |-> end]

ReadRange(length, offset, sz) ==
    LET start == MinOf(offset, length)
        sum == IF start <= SizeMax - sz THEN (start + sz) % (SizeMax + 1) ELSE SizeMax
        end == IF sz = NoSize THEN length ELSE MinOf(sum, length)
    IN [start |-> start, end |-> end]

-----------------------------------------------------------------------------
(* glob::fnmatch, from pattern position i and name position j on.  A class *)
(* is a token of its own.                                                  *)
Takes(token, c) == (c \in token.chars) <=> (token.kind = "in")

FnMatch(pattern, name) ==
    LET plen == Len(pattern) + 1
        nlen == Len(name) + 1
        skipStars(i) == CHOOSE k \in i .. plen :
                           /\ k = plen \/ pattern[k].kind # "star"
                           /\ \A l \in i .. k - 1 : pattern[l].kind = "star"
        match[at \in (1 .. plen) \X (1 .. nlen)] ==
            LET i == at[1]
                j == at[2]
            IN IF i = plen \/ j = nlen THEN skipStars(i) = plen /\ j = nlen
               ELSE IF pattern[i].kind = "star"
               THEN skipStars(i) = plen \/ \E k \in j .. nlen : match[<<skipStars(i), k>>]
               ELSE Takes(pattern[i], name[j]) /\ match[<<i + 1, j + 1>>]
    IN match[<<1, 1>>]

Hidden(name) == name[1] = "."

(* A name with a leading dot is matched only by a pattern that has one.    *)
GlobMatch(pattern, name) ==
    /\ Hidden(name) => pattern[1] = Lit(".") \/ pattern = DoubleStar
    /\ FnMatch(pattern, name)

(* Mistaken: the double star also goes down into hidden directories.       *)
IGlobHidden(segments, p) ==
    LET last == Len(segments)
        hits[at \in (0 .. Len(p)) \X (1 .. last + 1)] ==
            LET d == at[1]
                i == at[2]
                deeper == d + 1 < Len(p)
            IN IF i > last \/ d = Len(p) THEN 0
               ELSE IF segments[i] = DoubleStar
               THEN hits[<<d, i + 1>>] + (IF deeper THEN hits[<<d + 1, i>>] ELSE 0)
               ELSE IF ~GlobMatch(segments[i], Spelling[p[d + 1]]) THEN 0
               ELSE IF i = last THEN (IF deeper THEN 0 ELSE 1)
               ELSE IF deeper THEN hits[<<d + 1, i + 1>>] ELSE 0
    IN hits[<<0, 1>>]

(* iglob_recursive: how often it reports the file p, from the directory    *)
(* that holds p's segment d + 1 and pattern segment i on.  The double star *)
(* stands for any number of directories that are not hidden.               *)
IGlob(segments, p) ==
    LET last == Len(segments)
        hits[at \in (0 .. Len(p)) \X (1 .. last + 1)] ==
            LET d == at[1]
                i == at[2]
                name == Spelling[p[d + 1]]
                deeper == d + 1 < Len(p)
            IN IF i > last \/ d = Len(p) THEN 0
               ELSE IF segments[i] = DoubleStar
               THEN hits[<<d, i + 1>>]
                    + (IF deeper /\ ~Hidden(name) THEN hits[<<d + 1, i>>] ELSE 0)
               ELSE IF ~GlobMatch(segments[i], name) THEN 0
               ELSE IF i = last THEN (IF deeper THEN 0 ELSE 1)
               ELSE IF deeper THEN hits[<<d + 1, i + 1>>] ELSE 0
    IN hits[<<0, 1>>]

-----------------------------------------------------------------------------
(* What a pattern means: the sequence is cut into consecutive pieces, one  *)
(* for each part of the pattern, that the part fits.                       *)
CutsInto(parts, seq, Piece(_, _)) ==
    \E cut \in [0 .. Len(parts) -> 0 .. Len(seq)] :
        /\ cut[0] = 0 /\ cut[Len(parts)] = Len(seq)
        /\ \A i \in 1 .. Len(parts) :
              cut[i - 1] <= cut[i] /\ Piece(parts[i], SubSeq(seq, cut[i - 1] + 1, cut[i]))

NameMatches(segment, name) ==
    /\ Hidden(name) => segment[1] = Lit(".")
    /\ CutsInto(segment, name,
                LAMBDA token, piece :
                    \/ token = Star
                    \/ Len(piece) = 1 /\ Takes(token, piece[1]))

PathMatches(segments, p) ==
    /\ segments # <<>> /\ Last(segments) # DoubleStar
    /\ CutsInto(segments, p,
                LAMBDA segment, piece :
                    IF segment = DoubleStar
                    THEN \A i \in DOMAIN piece : ~Hidden(Spelling[piece[i]])
                    ELSE Len(piece) = 1 /\ NameMatches(segment, Spelling[piece[1]]))

(* Glob finds exactly the files that match the pattern, and lists none     *)
(* twice if the pattern has at most one double star.                       *)
GlobFindsMatches ==
    \A segments \in Patterns, p \in Files(tree) :
        LET hits == IGlob(segments, p)
        IN /\ hits > 0 <=> PathMatches(segments, p)
           /\ Cardinality({i \in DOMAIN segments : segments[i] = DoubleStar}) <= 1 => hits <= 1

(* The two ways of walking a tree agree: a recursive listing has exactly   *)
(* the files below the directory, and os.walk-style entries name every     *)
(* directory once, each, below the start, as a subdirectory of another;    *)
(* the link counts of stat add up to as many subdirectories.               *)
ListingsAgree ==
    \A d \in Path \cup {Root} :
        LET entries == WalkTreeDirs(d)
        IN Lookup(tree, d) = DirEntry =>
              /\ LsRecursive(d) = WalkTree(tree, d)
              /\ {w.dirpath : w \in entries} =
                   {d} \cup UNION {{Append(w.dirpath, n) : n \in w.dirnames} : w \in entries}
              /\ Cardinality(entries) - 1 =
                   MapThenSumSet(LAMBDA w : Stat(w.dirpath).nlink - 2, entries)

(* A range read is the part of the file that the offset and the size ask   *)
(* for, also where their sum exceeds SIZE_MAX.                             *)
RangesAreExact ==
    \A p \in Files(tree), offset \in 0 .. SizeMax, sz \in 0 .. NoSize :
        LET length == SizeOf[tree[p]]
            range == ReadRange(length, offset, sz)
        IN range.start .. range.end - 1 =
             {i \in 0 .. length - 1 : i >= offset /\ (sz = NoSize \/ i < offset + sz)}
=============================================================================
