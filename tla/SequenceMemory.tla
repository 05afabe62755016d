--------------------------- MODULE SequenceMemory ---------------------------
(***************************************************************************)
(* What a context's attention memory promises its callers (the llama_memory*)
(* functions and llama_decode of src/include/llama.h): a bag of tokens,    *)
(* each at a position and belonging to a set of sequences.  There are no   *)
(* cells, no heads, no slots and no postponed work here: an operation has  *)
(* its whole effect at once.  KVCells is shown to implement this module.   *)
(*                                                                         *)
(* A token is named by the sequence it was decoded for (tok); it keeps the *)
(* name when it is copied to another sequence.                             *)
(***************************************************************************)
EXTENDS SlidingWindow, Sequences, FiniteSets, SequencesExt, FiniteSetsExt, Bags

CONSTANTS
    Seqs,       (* sequence ids                                            *)
    Configs,    (* configurations: records of                              *)
                (*   unified: one stream of cells for all sequences        *)
                (*   swa, window: the mask; tokens that a later one does   *)
                (*     not see may be forgotten                            *)
                (*   batches: sequences of ubatches; a ubatch is a sequence*)
                (*     of tokens, each the ids of its sequences in order   *)
                (*   maxPos: bound on positions                            *)
    Shifts,     (* the shifts seq_add is called with                       *)
    Ranges      (* pairs <<p0, p1>>: the position ranges of the calls      *)

VARIABLES
    conf,       (* the configuration                                       *)
    tokens,     (* a bag of [seqs, pos, tok]                               *)
    ret         (* the outcome of the last call, if it was a decode        *)

memory == <<conf, tokens, ret>>

Lost == -1      (* the name of a token whose keys were never computed      *)

In(t, range) == range[1] <= t.pos /\ t.pos < range[2]
Held(bag)    == [t \in {u \in DOMAIN bag : u.seqs # {} /\ u.pos >= 0} |-> bag[t]]
PosesOf(bag, s) == {t.pos : t \in {u \in DOMAIN bag : s \in u.seqs}}
PosMax(bag, s)  == Max({-1} \cup PosesOf(bag, s))
PosMin(bag, s)  == IF PosesOf(bag, s) = {} THEN -1 ELSE Min(PosesOf(bag, s))

(* The sequences that share cells with s. *)
Together(s) == IF conf.unified THEN Seqs ELSE {s}
-----------------------------------------------------------------------------
(* The tokens of a batch, in order, at the positions that follow each      *)
(* sequence's last one: last[s] is the last position stored for s.  The    *)
(* caller gives no positions (batch.pos is null) and init() generates      *)
(* them.                                                                   *)
Placed(last, b) ==
    LET places == UNION {{k} \X (DOMAIN b[k]) : k \in DOMAIN b}
        Before(k, i, s) == Cardinality({at \in places :
                               /\ at[1] < k \/ (at[1] = k /\ at[2] < i)
                               /\ s \in Range(b[at[1]][at[2]])})
    IN  [k \in 1 .. Len(b) |-> [i \in 1 .. Len(b[k]) |->
            [seqs |-> Range(b[k][i]),
             pos  |-> last[b[k][i][1]] + 1 + Before(k, i, b[k][i][1]),
             tok  |-> b[k][i][1]]]]

BagOf(toks) == FoldLeft(LAMBDA bag, t : bag (+) SetToBag({t}), EmptyBag, toks)

(* The batch is accepted if its positions exist and its coupled sequences  *)
(* have the same range of positions.  Generated positions continue every   *)
(* sequence and ascend; the checks of positions that a caller gives are    *)
(* left out with them, and that of partial subsets, which never fires.     *)
Accepted(placed, first, last) ==
    \A k \in DOMAIN placed : \A i \in DOMAIN placed[k] :
        /\ placed[k][i].pos <= conf.maxPos
        /\ \A s, t \in placed[k][i].seqs : first[s] = first[t] /\ last[s] = last[t]

(* While a batch is decoded, a sequence may forget tokens that are out of  *)
(* the window of the token that follows its last one: pairs of a token of  *)
(* the bag (with a number, there may be several alike) and a sequence.     *)
Copies(bag) == UNION {{<<t, k>> : k \in 1 .. bag[t]} : t \in DOMAIN bag}

Forgettable(bag, all) ==
    {f \in Copies(bag) \X Seqs :
        /\ f[2] \in f[1][1].seqs
        /\ IsMasked(conf.window, conf.swa, f[1][1].pos, PosMax(all, f[2]) + 1)}

Without(bag, gone) ==
    Held(BagOfAll(LAMBDA c : [c[1] EXCEPT !.seqs = {s \in @ : <<c, s>> \notin gone}],
                  SetToBag(Copies(bag))))

(* A ubatch whose graph failed is taken back for the first sequence of     *)
(* each token only: the others keep a token that was never computed.       *)
TakenBack(toks) ==
    Held(BagOf([i \in DOMAIN toks |->
        [seqs |-> toks[i].seqs \ {toks[i].tok}, pos |-> toks[i].pos, tok |-> Lost]]))

(* llama_decode: all ubatches are stored, or none because the batch was    *)
(* refused, or those before the first one that failed.                     *)
Decode(b) ==
    LET first  == [s \in Seqs |-> PosMin(tokens, s)]
        last   == [s \in Seqs |-> PosMax(tokens, s)]
        placed == Placed(last, b)
        all    == tokens (+) BagOf(FlattenSeq(placed))
        After(n) == tokens (+) BagOf(FlattenSeq(SubSeq(placed, 1, n)))
        Forgetful(bag, rest) ==
            \E gone \in SUBSET Forgettable(bag, all) : tokens' = Without(bag, gone) (+) rest
    IN  /\ ret' # "none"
        /\ Accepted(placed, first, last)
        /\ \/ ret' = "ok"      /\ Forgetful(all, EmptyBag)
           \/ ret' = "refused" /\ Forgetful(tokens, EmptyBag)
           \/ /\ ret' = "failed"
              /\ \E n \in 1 .. Len(b) : Forgetful(After(n - 1), TakenBack(placed[n]))

Clear == tokens' = EmptyBag

SeqRm(s, range) ==
    tokens' = Held(BagOfAll(LAMBDA t : IF s \in t.seqs /\ In(t, range)
                                       THEN [t EXCEPT !.seqs = @ \ {s}] ELSE t, tokens))

SeqRmAll(range) ==
    tokens' = [t \in {u \in DOMAIN tokens : ~In(u, range)} |-> tokens[t]]

SeqCpShared(s, d, range) ==
    /\ d \in Together(s) \ {s}
    /\ tokens' = BagOfAll(LAMBDA t : IF s \in t.seqs /\ In(t, range)
                                     THEN [t EXCEPT !.seqs = @ \cup {d}] ELSE t, tokens)

(* Between streams a sequence is replaced by a copy of another one. *)
SeqCpStream(s, d) ==
    /\ d \notin Together(s)
    /\ LET Others == [t \in {u \in DOMAIN tokens : u.seqs \cap Together(d) = {}} |-> tokens[t]]
           Copied == [t \in {u \in DOMAIN tokens : s \in u.seqs} |-> tokens[t]]
       IN  tokens' = Others (+) BagOfAll(LAMBDA t : [t EXCEPT !.seqs = {d}], Copied)

SeqKeep(s) ==
    tokens' = Held(BagOfAll(LAMBDA t : IF t.seqs \subseteq Together(s)
                                       THEN [t EXCEPT !.seqs = @ \cap {s}] ELSE t, tokens))

(* A token that several sequences share moves for all of them, and is      *)
(* removed if its position would be negative.                              *)
SeqAdd(s, range, d) ==
    tokens' = Held(BagOfAll(LAMBDA t : IF s \in t.seqs /\ In(t, range)
                                       THEN [t EXCEPT !.pos = @ + d] ELSE t, tokens))

SeqDiv(s, range, d) ==
    tokens' = BagOfAll(LAMBDA t : IF s \in t.seqs /\ In(t, range)
                                  THEN [t EXCEPT !.pos = @ \div d] ELSE t, tokens)

Init ==
    /\ conf \in Configs
    /\ tokens = EmptyBag
    /\ ret = "none"

Next ==
    /\ UNCHANGED conf
    /\ \/ \E b \in conf.batches : Decode(b)
       \/ /\ ret' = "none"
          /\ \/ Clear
             \/ \E s \in Seqs, range \in Ranges :
                    \/ SeqRm(s, range)
                    \/ \E d \in Seqs : SeqCpShared(s, d, range)
                    \/ \E d \in Shifts : SeqAdd(s, range, d)
                    \/ SeqDiv(s, range, 2)
             \/ \E range \in Ranges : SeqRmAll(range)
             \/ \E s \in Seqs : SeqKeep(s) \/ \E d \in Seqs : SeqCpStream(s, d)

Spec == Init /\ [][Next]_memory
=============================================================================
