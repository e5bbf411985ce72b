----------------------------- MODULE Dictionary -----------------------------
(***************************************************************************)
(* The word lists of Wordparty: make-dictionary.c turns the lines of a     *)
(* file into a trie whose equal parts are written once, pcx-dictionary.c   *)
(* looks words up in it, make-syllables.c counts the syllables in it, and  *)
(* pcx-syllabary.c picks one of them at random.                            *)
(* A letter is a number and takes one byte; 0 ends a word. Offsets are     *)
(* digits of a number system, 128 in the code.                             *)
(***************************************************************************)
EXTENDS Integers, Sequences, FiniteSets, SequencesExt

CONSTANTS
    Lines,          \* the words that make-dictionary may be given
    MaxWords,       \* how many of them
    Base,           \* the values of one byte of an offset
    Alphabet,       \* letters of make-syllables.c
    Lengths,        \* MIN_SYLLABLE_LENGTH .. MAX_SYLLABLE_LENGTH
    MinCount,       \* MIN_SYLLABLE_COUNT
    MaxDifficulty   \* PCX_SYLLABARY_MAX_DIFFICULTY

VARIABLES
    words,          \* the lines that were read
    all_nodes,      \* the nodes of the trie, each as the letters that lead to it
    file,           \* what write_nodes wrote
    syllabary       \* what dump_syllables wrote: entries [hit_count, letters]

dictVars == <<words, all_nodes, file, syllabary>>

Star == 99
Root == <<Star>>
DictInit == words = {} /\ all_nodes = <<Root>> /\ file = << >> /\ syllabary = << >>

(* add_word: the nodes of a word that are not there yet.                    *)
Path(word) == Root \o word \o <<0>>
NewNodes(word) ==
    SelectSeq([n \in 1 .. Len(word) + 1 |-> SubSeq(Path(word), 1, n + 1)],
              LAMBDA n : n \notin ToSet(all_nodes))
AddLine ==
    /\ file = << >> /\ Cardinality(words) < MaxWords
    /\ \E word \in Lines :
          words' = words \cup {word} /\ all_nodes' = all_nodes \o NewNodes(word)
    /\ UNCHANGED <<file, syllabary>>

-----------------------------------------------------------------------------
(* The nodes, sorted by character among siblings.                           *)

Nodes == ToSet(all_nodes)
Children(n) == {m \in Nodes : Len(m) = Len(n) + 1 /\ Front(m) = n}
LaterSiblings(n) ==
    {m \in Nodes : Len(m) = Len(n) /\ Front(m) = Front(n) /\ Last(m) > Last(n)}
Leftmost(S) == CHOOSE n \in S : \A m \in S : Last(n) =< Last(m)

(* Of two different sequences, the one that ends or is smaller first.       *)
Differ(a, b) == {i \in 1 .. Len(a) : i =< Len(b) /\ a[i] # b[i]}
Lexicographic(a, b) ==
    IF Differ(a, b) = {} THEN Len(a) < Len(b)
    ELSE LET i == CHOOSE i \in Differ(a, b) : \A j \in Differ(a, b) : i =< j
         IN a[i] < b[i]

(* The binary tree of a node: first_child is one branch and next_sibling    *)
(* the other.                                                               *)
InTree(m, n) == /\ Len(m) >= Len(n) /\ m[Len(n)] >= Last(n)
                /\ SubSeq(m, 1, Len(n) - 1) = Front(n)

(* compare_node looks at the larger tree first, then node by node at the    *)
(* character, the child and the sibling.                                    *)
Bit(b) == IF b THEN 1 ELSE 0
Look(m) == 4 * Last(m) + 2 * Bit(Children(m) # {}) + Bit(LaterSiblings(m) # {})
Looks == LET preorder == SortSeq(all_nodes, Lexicographic)
             look == [m \in Nodes |-> Look(m)]
             Visits(n) == SelectSeq(preorder, LAMBDA m : InTree(m, n))
         IN [n \in Nodes |-> LET visits == Visits(n) IN
                <<-Len(visits)>> \o [i \in 1 .. Len(visits) |-> look[visits[i]]]]

-----------------------------------------------------------------------------
(* calculate_file_positions and write_nodes.                                *)

NBytes(size) == CHOOSE n \in 1 .. size + 1 :
    size < Base ^ n /\ (n = 1 \/ size >= Base ^ (n - 1))

(* The two offsets of a node, whose end is at next in the file.             *)
ChildOffset(offset, n, next) ==
    IF Children(n) = {} THEN 0 ELSE next + 1 - offset[Leftmost(Children(n))]
SiblingOffset(offset, n, next) ==
    IF LaterSiblings(n) = {} THEN 0 ELSE next + 1 - offset[Leftmost(LaterSiblings(n))]

(* From the last node, how far each is from the end of the file; a node     *)
(* that looks like the next one is the same.                                *)
Positions(nodes, looks) ==
    LET Place(n, placed) ==
            LET next == IF placed.after = << >> THEN 0 ELSE placed.offset[placed.after]
                same == placed.after # << >> /\ looks[n] = looks[placed.after]
                size == 1 + NBytes(ChildOffset(placed.offset, n, next))
                          + NBytes(SiblingOffset(placed.offset, n, next))
            IN [after |-> n,
                offset |-> [placed.offset EXCEPT ![n] = IF same THEN next ELSE next + size]]
    IN FoldRight(Place, nodes, [after |-> << >>, offset |-> [n \in Nodes |-> 0]]).offset

(* write_offset: the lowest digits first, and whether another one follows.  *)
WriteOffset(size) ==
    [i \in 1 .. NBytes(size) |-> [more |-> i < NBytes(size),
                                  digit |-> (size \div Base ^ (i - 1)) % Base]]

WriteNodes ==
    /\ file = << >>
    /\ \E looks \in {Looks} :
       \E nodes \in {SortSeq(all_nodes, LAMBDA a, b : Lexicographic(looks[a], looks[b]))} :
       \E offset \in {Positions(nodes, looks)} :
          file' = FlattenSeq([i \in 1 .. Len(nodes) |->
            LET n == nodes[i]
                next == IF i < Len(nodes) THEN offset[nodes[i + 1]] ELSE 0
            IN IF i < Len(nodes) /\ next = offset[n] THEN << >>
               ELSE WriteOffset(SiblingOffset(offset, n, next))
                    \o WriteOffset(ChildOffset(offset, n, next)) \o <<[ch |-> Last(n)]>>])
    /\ UNCHANGED <<words, all_nodes, syllabary>>

-----------------------------------------------------------------------------
(* pcx-dictionary.c.                                                        *)

(* read_offset; what is not an offset, or beyond the end, is a failure.     *)
IsDigit(pos) == pos =< Len(file) /\ "digit" \in DOMAIN file[pos]
Ends(pos) == {k \in pos .. Len(file) :
                 \A j \in pos .. k : IsDigit(j) /\ (file[j].more <=> j < k)}
Value(pos, end) == FoldRight(LAMBDA byte, value : byte.digit + Base * value,
                             SubSeq(file, pos, end), 0)

(* extract_node: one node, or none.                                         *)
ExtractNode(pos) ==
    UNION {{[sibling |-> Value(pos, s), child |-> Value(s + 1, c), letter |-> c + 1] :
               c \in {c \in Ends(s + 1) : c < Len(file) /\ ~IsDigit(c + 1)}} : s \in Ends(pos)}

RECURSIVE Finds(_, _)
Finds(pos, word) ==
    \E info \in ExtractNode(pos) :
        IF file[info.letter].ch = word[1]
        THEN word[1] = 0 \/ (info.child # 0 /\ Finds(info.letter + info.child, Tail(word)))
        ELSE info.sibling # 0 /\ Finds(info.letter + info.sibling, word)

ContainsWord(word) ==
    \E root \in ExtractNode(1) :
        root.child # 0 /\ Finds(root.letter + root.child, Append(word, 0))

(* pcx_dictionary_iterate: the words in the order in which it calls back.   *)
RECURSIVE WordsFrom(_, _)
WordsFrom(pos, word) ==
    LET info == CHOOSE info \in ExtractNode(pos) : TRUE
        ch == file[info.letter].ch
    IN IF ExtractNode(pos) = {} THEN << >>
       ELSE (IF ch = 0 THEN <<Tail(word)>> ELSE << >>)
            \o (IF info.child = 0 THEN << >>
                ELSE WordsFrom(info.letter + info.child, Append(word, ch)))
            \o (IF info.sibling = 0 THEN << >>
                ELSE WordsFrom(info.letter + info.sibling, word))
Iterate == WordsFrom(1, << >>)

-----------------------------------------------------------------------------
(* make-syllables.c.                                                        *)

Sorted(S, Before(_, _)) ==
    [i \in 1 .. Cardinality(S) |->
        CHOOSE x \in S : Cardinality({y \in S : Before(y, x)}) = i - 1]

Syllables == UNION {[1 .. n -> Alphabet] : n \in Lengths}
Places(word, syllable) ==
    {i \in 1 .. Len(word) - Len(syllable) + 1 :
        SubSeq(word, i, i + Len(syllable) - 1) = syllable}
HitCount(read, syllable) ==
    FoldLeft(LAMBDA count, word : count + Cardinality(Places(word, syllable)), 0, read)

(* The syllables that occur often enough, the rarest first, and how many    *)
(* hits there are up to each of them.                                       *)
MakeSyllables ==
    /\ file # << >> /\ syllabary = << >>
    /\ \E hits \in {[s \in Syllables |-> HitCount(Iterate, s)]} :
       \E often \in {Sorted({s \in Syllables : hits[s] >= MinCount},
                       LAMBDA a, b : hits[a] < hits[b]
                                     \/ (hits[a] = hits[b] /\ Lexicographic(a, b)))} :
          syllabary' = [i \in 1 .. Len(often) |->
            [hit_count |-> FoldLeft(LAMBDA count, s : count + hits[s], 0, SubSeq(often, 1, i)),
             letters |-> often[i]]]
    /\ UNCHANGED <<words, all_nodes, file>>

DictNext == AddLine \/ WriteNodes \/ MakeSyllables
DictSpec == DictInit /\ [][DictNext]_dictVars

-----------------------------------------------------------------------------
(* pcx_syllabary_get_random, for a target below the number of hits.         *)

TotalHitCount == IF syllabary = << >> THEN 0 ELSE Last(syllabary).hit_count
RangeStart(i) == IF i > 1 THEN syllabary[i - 1].hit_count ELSE 0

RECURSIVE Search(_, _, _)
Search(target, min, max) ==
    LET mid == (min + max) \div 2
    IN IF max =< min THEN 0
       ELSE IF target < RangeStart(mid + 1) THEN Search(target, min, mid)
       ELSE IF target >= syllabary[mid + 1].hit_count THEN Search(target, mid + 1, max)
       ELSE mid + 1
GetRandom(target) == Search(target, 0, Len(syllabary))
Difficulty(i) == ((TotalHitCount - RangeStart(i)) * MaxDifficulty) \div TotalHitCount

-----------------------------------------------------------------------------
(* Properties.                                                              *)

(* Whatever is shared in the file, it has the words of the lines, each once,*)
(* and no other, for those who look a word up and for those who read all.   *)
WordsSurvive ==
    file # << >> =>
        /\ \A word \in Lines : ContainsWord(word) <=> word \in words
        /\ Iterate = Sorted(words, LAMBDA a, b : Lexicographic(Append(a, 0), Append(b, 0)))

(* Of all targets, a syllable gets as many as it occurs in the words; none  *)
(* is left over; and a rarer syllable is not easier.                        *)
Occurs(syllable) == FoldSet(LAMBDA word, count : count + Cardinality(Places(word, syllable)),
                            0, words)
SyllablesAreFair ==
    syllabary # << >> =>
        /\ \A s \in Syllables :
              Cardinality({t \in 0 .. TotalHitCount - 1 :
                  GetRandom(t) # 0 /\ syllabary[GetRandom(t)].letters = s})
              = IF Occurs(s) >= MinCount THEN Occurs(s) ELSE 0
        /\ \A i, j \in 1 .. Len(syllabary) :
              Occurs(syllabary[i].letters) < Occurs(syllabary[j].letters)
                => Difficulty(i) >= Difficulty(j)
=============================================================================
