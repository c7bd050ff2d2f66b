-------------------------- MODULE MCWeightBinding ---------------------------
(* WeightBinding on three small layers (dense KDA, MoE KDA, MoE MLA), each *)
(* call on a whole checkpoint served every way there is, and on one with a *)
(* single tensor, header, archive or manifest entry gone wrong.            *)
EXTENDS WeightBinding

MCCfg == [hidden |-> 4, n_layers |-> 3, vocab |-> 5, kda_heads |-> 1, kda_head_dim |-> 2,
          conv_k |-> 2, n_heads |-> 1, q_lora |-> 2, kv_lora |-> 2, qk_nope |-> 1,
          qk_rope |-> 1, v_head |-> 1, mla_out_gate |-> TRUE, n_experts |-> 2, topk |-> 1,
          n_shared |-> 1, latent |-> 2, moe_inter |-> 1, first_dense |-> 1,
          dense_inter |-> 1, attn_res_block |-> 1, full_attn |-> <<3>>]

Layers == 0 .. MCCfg.n_layers - 1
Both == ModelPlan(TRUE, TRUE)
Dtype(r) == IF r.narrow \/ r.name \in Bf16OnDisk THEN "BF16" ELSE "F32"
Shape(r) == IF r.name \in {"embed_tokens", "lm_head"} THEN <<Cfg.vocab, Cfg.hidden>>
            ELSE <<r.want>>
(* A sequence or function, written out once and for all.                   *)
Listed(f) == f \o <<>>
Tabled(f) == f @@ <<>>
Ship(plan) == Listed([k \in DOMAIN plan |->
                 [name |-> plan[k].name, dtype |-> Dtype(plan[k]), shape |-> Shape(plan[k])]])
Span(t) == Numel(t.shape) * Esz(t.dtype)
(* scales: 1 x 1 for 1 x 1 codes, groups of two.                           *)
Pair(n) == <<[name |-> n[1], dtype |-> "U8", shape |-> <<1, 2>>],
             [name |-> n[2], dtype |-> "U8", shape |-> <<1, 2>>]>>
Expert == Pair(<<"w1p", "w1s">>) \o Pair(<<"w2p", "w2s">>) \o Pair(<<"w3p", "w3s">>)
Gap == <<[name |-> "between", dtype |-> "U8", shape |-> <<3>>]>>
Scattered == SubSeq(Expert, 1, 3) \o Gap \o SubSeq(Expert, 4, 6)

Sum(f) == SumFunction(f)
SizeOf(ts) == Sum([k \in DOMAIN ts |-> Span(ts[k])])
HeaderOf(ts) == Listed([k \in DOMAIN ts |->
  LET o == SizeOf(SubSeq(ts, 1, k - 1)) IN
  [name |-> ts[k].name, dtype |-> ts[k].dtype, shape |-> ts[k].shape,
   o0 |-> o, o1 |-> o + Span(ts[k])]])

(* Blocks of eight bytes, every second one split; a raw, a coded and a raw *)
(* extent, the raw ones padded to the offset they stand for.               *)
Blocked(raw) ==
  LET n == (raw + 7) \div 8
      Off(e) == ZHeader + ZRow * n + 9 * (e - 1) IN
  [mapped |-> FALSE, raw |-> raw, block |-> 8, physical |-> Off(n + 1),
   entry |-> Listed([e \in 1 .. n |-> [off |-> Off(e), size |-> 9, flags |-> e % 2]]),
   frame |-> Tabled([p \in {Off(e) : e \in 1 .. n} |->
                LET e == CHOOSE e \in 1 .. n : Off(e) = p IN
                [index |-> e, flags |-> e % 2]])]
Selective(raw) ==
  LET a == 10  b == 17
      first == ZHeader + ZRow * 3
      p1 == first + ((-first) % Align)
      p2 == p1 + a
      p3 == p2 + 9 + ((b - p2 - 9) % Align) IN
  [mapped |-> TRUE, raw |-> raw, block |-> 8, physical |-> p3 + raw - b,
   entry |-> <<[end |-> a, off |-> p1, size |-> a, flags |-> RAW],
               [end |-> b, off |-> p2, size |-> 9, flags |-> 0],
               [end |-> raw, off |-> p3, size |-> raw - b, flags |-> RAW]>>,
   frame |-> p2 :> [index |-> 2, flags |-> 0]]

Shard(ts, hlen, how) ==
  LET all == 8 + hlen + SizeOf(ts) IN
  [opens |-> TRUE, json |-> TRUE, hlen |-> hlen, size |-> all,
   local |-> IF how = "remote" THEN 8 + hlen ELSE all,
   z |-> CASE how = "block" -> Blocked(all) [] how \in {"mapped", "mapped direct"} -> Selective(all)
           [] OTHER -> NoArchive,
   dfd |-> how \in {"direct", "mapped direct"},
   tensor |-> HeaderOf(ts)]
Hows == {"plain", "direct", "block", "mapped", "mapped direct", "remote"}
Offs == {0, 3, 4, 7, 11, 13, 18, 30, 33}
Lens == {0, 1, 4, 5, 9, 14}
Dir(shards, how) ==
  [incomplete |-> FALSE, socket |-> TRUE, remote |-> IF how = "remote" THEN "yes" ELSE "no",
   shard |-> shards]
(* Two shards, the second of them starting at an even offset.              *)
Half2(ts) == Len(ts) \div 2
Split(ts, how) ==
  Dir(<<Shard(SubSeq(ts, 1, Half2(ts)), 3, how),
        Shard(SubSeq(ts, Half2(ts) + 1, Len(ts)), 4, how)>>, how)

Without(ts, k) == SubSeq(ts, 1, k - 1) \o SubSeq(ts, k + 1, Len(ts))
Recast(ts, k, dt) == [ts EXCEPT ![k].dtype = dt]
Flawed(ts) ==
  UNION {{Without(ts, k), [ts EXCEPT ![k].shape = Append(@, 2)], Recast(ts, k, "F16")} : k \in DOMAIN ts}
(* Still a tensor K3 can bind, only not the type it ships with.            *)
Recasts(ts) ==
  {Recast(ts, k, IF ts[k].dtype = "F32" THEN "BF16" ELSE "F32") : k \in {2, 8, Len(ts)} \cap DOMAIN ts}
  \cup {Listed([k \in DOMAIN ts |-> [ts[k] EXCEPT !.dtype = "F32"]])}

(* A directory with one thing wrong with it.                               *)
BadShard(sh) ==
  {[sh EXCEPT !.opens = FALSE], [sh EXCEPT !.json = FALSE], [sh EXCEPT !.hlen = 0],
    [sh EXCEPT !.hlen = sh.local], [sh EXCEPT !.tensor[1].o1 = @ + 1],
    [sh EXCEPT !.tensor[1].dtype = "Q4"], [sh EXCEPT !.size = @ - 1],
    [sh EXCEPT !.tensor[2].name = sh.tensor[1].name],
    [sh EXCEPT !.tensor[1].shape = <<-1>>, !.tensor[1].o1 = sh.tensor[1].o0 - Esz(sh.tensor[1].dtype)]}
BadArchive(sh) ==
  LET z == sh.z  n == Len(sh.z.entry) IN
  {[sh EXCEPT !.z.entry[2].off = @ + Align], [sh EXCEPT !.z.physical = @ + 1],
   [sh EXCEPT !.z.entry[1].flags = 3], [sh EXCEPT !.z.entry[n].size = @ + 1],
   [sh EXCEPT !.z.frame = Tabled([p \in DOMAIN z.frame |-> z.frame[z.entry[2].off]])],
   [sh EXCEPT !.z.frame = Tabled([p \in DOMAIN z.frame |-> [z.frame[p] EXCEPT !.flags = 1 - @]])]}
BadDirs(ts) ==
  LET d == Split(ts, "plain")
      z == Split(ts, "block")
      m == Split(ts, "mapped") IN
  {[d EXCEPT !.incomplete = TRUE], [d EXCEPT !.shard = <<>>], [d EXCEPT !.remote = "bad"],
   [Split(ts, "remote") EXCEPT !.socket = FALSE], [z EXCEPT !.remote = "yes"]}
  \cup {[d EXCEPT !.shard[2] = s] : s \in BadShard(d.shard[2])}
  \cup {[z EXCEPT !.shard[1] = s] : s \in BadArchive(z.shard[1])}
  \cup {[m EXCEPT !.shard[1] = s] : s \in BadArchive(m.shard[1])}

(* Packed runs as pack_trunk.py and int8_trunk.py leave them.              *)
Rank2(r) == r.narrow \/ r.name \in {"gate", "self_attention_res_proj", "mlp_res_proj"}
RowsOf(r) == IF r.name = "gate" THEN Cfg.n_experts ELSE 1
PackEntry(r, int8) ==
  IF int8 /\ Rank2(r) THEN [nbytes |-> r.want + 4 * RowsOf(r), dtype |-> "I8R", rows |-> RowsOf(r)]
  ELSE [nbytes |-> r.want * Esz(Dtype(r)), dtype |-> Dtype(r), rows |-> 1]
PackOf(es, plan) ==
  [nbytes |-> Sum([k \in DOMAIN es |-> es[k].nbytes]),
   t |-> Tabled([n \in {plan[k].name : k \in DOMAIN plan} |->
            LET k == CHOOSE k \in DOMAIN plan : plan[k].name = n IN
            es[k] @@ [off |-> Sum([j \in 1 .. k - 1 |-> es[j].nbytes])]])]
Pack(L, int8) == LET plan == LayerPlan(L) IN
  PackOf(Listed([k \in DOMAIN plan |-> PackEntry(plan[k], int8)]), plan)
AllBf16(L) == LET plan == LayerPlan(L) IN
  PackOf(Listed([k \in DOMAIN plan |-> [nbytes |-> 2 * plan[k].want, dtype |-> "BF16", rows |-> 1]]), plan)
BadPacks(p, plan) ==
  LET With(m, dt, n) == [p EXCEPT !.t[m.name].dtype = dt, !.t[m.name].nbytes = n,
                                  !.nbytes = p.nbytes + n - p.t[m.name].nbytes]
      Bad(m) == {[p EXCEPT !.t = Tabled([n \in DOMAIN p.t \ {m.name} |-> p.t[n]])],
                 [p EXCEPT !.t[m.name].off = @ + 1], With(m, "F16", 2 * m.want)}
      \* of int8 rows the binder takes the packer's word for the size
      Sized(m) == IF p.t[m.name].dtype = "I8R" /\ (m.narrow \/ p.t[m.name].rows > 1) THEN {}
                  ELSE {[p EXCEPT !.t[m.name].nbytes = @ + 1], [p EXCEPT !.t[m.name].nbytes = @ - 4]}
      \* an int8 run with a float32 matrix in it: see the README
      Mixed(m) == IF \E n \in DOMAIN p.t : p.t[n].dtype = "I8R" THEN {}
                  ELSE {With(m, "F32", 4 * m.want)}
  IN UNION {Bad(m) \cup Sized(m) \cup Mixed(m) : m \in ToSet(plan)}
-----------------------------------------------------------------------------
Asked(dirs, ops) == {[dir |-> d, op |-> o] : d \in dirs, o \in ops}
OnLayer(kind, L, pack) == [kind |-> kind, layer |-> L, pack |-> pack]
OpModel(e, l) == [kind |-> "model", embed |-> e, lm_head |-> l]
Embed(r) == [kind |-> "embed_row", row |-> r]
Project == [kind |-> "project"]
OpExpert(direct, ok) == [kind |-> "expert", direct |-> direct, whole |-> ok]
OpRange(o, n, c) == [kind |-> "range", shard |-> 1, off |-> o, n |-> n, cap |-> c]

Served(ts) == {Split(ts, how) : how \in Hows}
Single(ts, hlen) == {Dir(<<Shard(ts, hlen, how)>>, how) : how \in Hows}
Each(tss, how) == {Split(ts, how) : ts \in tss}
OneTensor == {Dir(<<Shard(Gap, 1, "plain")>>, "plain")}

LayerCalls(L) ==
  LET plan == LayerPlan(L)
      ts == Ship(plan)
      bf16 == Pack(L, FALSE)
      int8 == Pack(L, TRUE)
      packs == {bf16, int8, AllBf16(L)} \cup BadPacks(bf16, plan) \cup BadPacks(int8, plan) IN
  Asked(Served(ts) \cup Each(Flawed(ts) \cup Recasts(ts), "plain"), {OnLayer("layer", L, NONE)})
  \cup Asked(OneTensor, {OnLayer(kind, L, p) : kind \in {"mem", "stream"}, p \in packs})
ModelCalls ==
  LET ts == Ship(Both) IN
  Asked(Served(ts), {OpModel(TRUE, FALSE), OpModel(TRUE, TRUE), Embed(0), Embed(4), Project})
  \cup Asked(Each(Flawed(ts) \cup Recasts(ts), "direct"), {OpModel(FALSE, TRUE), Embed(3), Project})
  \cup Asked(BadDirs(ts), {OpModel(TRUE, TRUE)})
ExpertCalls ==
  LET ops == {OpExpert(TRUE, TRUE), OpExpert(FALSE, TRUE)} IN
  Asked(UNION {Single(ts, h) : ts \in {Expert, Scattered}, h \in {3, 4}}, ops)
  \cup Asked({Dir(<<Shard(ts, 3, "plain")>>, "plain") : ts \in Flawed(Expert)}
             \cup {Split(Expert, "plain")}, {OpExpert(TRUE, FALSE)})
Ranges == {OpRange(o, n, n + extra) : o \in Offs, n \in Lens, extra \in {0, 2 * Align}}
RangeCalls == Asked(Single(Gap \o Expert, 5), Ranges)

MCCalls == UNION {LayerCalls(L) : L \in Layers} \cup ModelCalls \cup ExpertCalls \cup RangeCalls

(* Three home buckets for all names, one of them at the table's end.       *)
MCHash == [n \in STRING |->
             IF n \in {"input_layernorm", "lm_head", "norm", "q_proj", "q_a_proj", "w2s", "w3p"} THEN 63
             ELSE IF n \in {"gate", "o_proj", "embed_tokens", "w1p", "w1s"} THEN 0 ELSE 5]
=============================================================================
