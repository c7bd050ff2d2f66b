----------------------------- MODULE WeightPlan -----------------------------
(***************************************************************************)
(* Which tensors a layer, the model level and an expert consist of: the    *)
(* configuration k3_cfg_load admits (src/include/k3/k3_cfg.h) and the      *)
(* requests plan_layer and plan_model make (src/src/model/k3_bind.c).  A   *)
(* tensor is named by the end of its checkpoint name; its destination is   *)
(* the field of K3LayerBind that will point at it.                         *)
(***************************************************************************)
EXTENDS Integers, Sequences, SequencesExt, FiniteSetsExt

CONSTANTS
  Cfg,          \* the configuration, a record with k3_cfg.h's field names
  MaxTopk,      \* K3_MAX_TOPK
  Slack         \* 4096 bytes, for the alignment of widened vectors

Fields == {"hidden", "n_layers", "vocab", "kda_heads", "kda_head_dim", "conv_k",
           "n_heads", "q_lora", "kv_lora", "qk_nope", "qk_rope", "v_head",
           "mla_out_gate", "n_experts", "topk", "n_shared", "latent",
           "moe_inter", "first_dense", "dense_inter", "attn_res_block", "full_attn"}

(* Every field is required; full_attn is the one-based list of MLA layers. *)
CfgLoads(c) ==
  /\ Fields \subseteq DOMAIN c
  /\ c.full_attn # <<>>
  /\ c.n_layers > 0 /\ c.hidden > 0 /\ c.vocab > 0
  /\ Len(c.full_attn) < c.n_layers
  /\ \A k \in DOMAIN c.full_attn : c.full_attn[k] \in 1 .. c.n_layers
  /\ c.topk <= MaxTopk /\ c.topk <= c.n_experts
  /\ c.attn_res_block > 0
  /\ c.conv_k >= 1

ASSUME CfgAssumption == CfgLoads(Cfg)

(* k3_cfg_load does not look at every count; a config.json has none that   *)
(* is negative.                                                            *)
ASSUME CountsAssumption ==
  /\ \A f \in Fields \ {"mla_out_gate", "full_attn"} : Cfg[f] \in Nat
  /\ Slack \in Nat

IsMla(L)   == (L + 1) \in ToSet(Cfg.full_attn)
IsDense(L) == L < Cfg.first_dense
-----------------------------------------------------------------------------
(* reqw, reqn: WIDE is widened to float32, NARROW keeps the bytes of the   *)
(* checkpoint; take counts the elements kept.                              *)
Request(dest, name, narrow, want, take) ==
  [dest |-> dest, name |-> name, narrow |-> narrow, want |-> want, take |-> take]
Wide(dest, want)   == Request(dest, dest, FALSE, want, want)
Narrow(dest, want) == Request(dest, dest, TRUE, want, want)
Prefix(dest, want, take) == Request(dest, dest, FALSE, want, take)
MaxRequests == 64                                   \* MAXB

Hidden == Cfg.hidden
Width == Cfg.kda_heads * Cfg.kda_head_dim
Gated == IF Cfg.mla_out_gate THEN <<Narrow("g_proj", Cfg.n_heads * Cfg.v_head * Hidden)>>
                             ELSE <<>>

NormPlan ==
  [k \in 1 .. 6 |-> Wide(<<"input_layernorm", "post_attention_layernorm",
                           "self_attention_res_norm", "self_attention_res_proj",
                           "mlp_res_norm", "mlp_res_proj">>[k], Hidden)]
MlaPlan ==
  <<Narrow("q_a_proj", Cfg.q_lora * Hidden), Wide("q_a_layernorm", Cfg.q_lora),
    Narrow("q_b_proj", Cfg.n_heads * (Cfg.qk_nope + Cfg.qk_rope) * Cfg.q_lora),
    Narrow("kv_a_proj", (Cfg.kv_lora + Cfg.qk_rope) * Hidden),
    Wide("kv_a_layernorm", Cfg.kv_lora),
    Narrow("kv_b_proj", Cfg.n_heads * (Cfg.qk_nope + Cfg.v_head) * Cfg.kv_lora),
    Narrow("o_proj", Hidden * Cfg.n_heads * Cfg.v_head)>> \o Gated
KdaPlan ==
  <<Narrow("q_proj", Width * Hidden), Narrow("k_proj", Width * Hidden), Narrow("v_proj", Width * Hidden),
    Narrow("g_proj", Width * Hidden), Narrow("o_proj", Hidden * Width),
    Wide("q_conv1d", Width * Cfg.conv_k), Wide("k_conv1d", Width * Cfg.conv_k),
    Wide("v_conv1d", Width * Cfg.conv_k),
    Narrow("f_a_proj", Cfg.kda_head_dim * Hidden), Narrow("f_b_proj", Width * Cfg.kda_head_dim),
    Narrow("b_proj", Cfg.kda_heads * Hidden),
    Prefix("A_log", Cfg.kda_head_dim, Cfg.kda_heads),
    Wide("dt_bias", Width), Wide("o_norm", Cfg.kda_head_dim)>>
DensePlan ==
  <<Narrow("gate_proj", Cfg.dense_inter * Hidden), Narrow("up_proj", Cfg.dense_inter * Hidden),
    Narrow("down_proj", Hidden * Cfg.dense_inter)>>
MoePlan ==
  LET SI == Cfg.moe_inter * Cfg.n_shared IN
  <<Wide("gate", Cfg.n_experts * Hidden), Wide("e_score_correction_bias", Cfg.n_experts),
    Narrow("routed_down_proj", Cfg.latent * Hidden), Narrow("routed_up_proj", Hidden * Cfg.latent),
    Wide("routed_expert_norm", Cfg.latent),
    Narrow("shared_gate_proj", SI * Hidden), Narrow("shared_up_proj", SI * Hidden),
    Narrow("shared_down_proj", Hidden * SI)>>

LayerPlan(L) ==
  NormPlan \o (IF IsMla(L) THEN MlaPlan ELSE KdaPlan)
           \o (IF IsDense(L) THEN DensePlan ELSE MoePlan)

ModelPlan(want_embed, want_lm_head) ==
  (IF want_embed THEN <<Narrow("embed_tokens", Cfg.vocab * Hidden)>> ELSE <<>>)
  \o <<Wide("norm", Hidden), Wide("output_attn_res_norm", Hidden), Wide("output_attn_res_proj", Hidden)>>
  \o (IF want_lm_head THEN <<Narrow("lm_head", Cfg.vocab * Hidden)>> ELSE <<>>)

ASSUME PlansFit == \A L \in 0 .. Cfg.n_layers - 1 : Len(LayerPlan(L)) <= MaxRequests
-----------------------------------------------------------------------------
Align8(x) == 8 * ((x + 7) \div 8)

(* k3_bind_widen_bytes: the vectors of one layer that are bf16 on disk.    *)
WidenUngated == 4 * (6 * Hidden + Cfg.q_lora + Cfg.kv_lora + Cfg.latent) + Slack
WidenBytes ==
  4 * (6 * Hidden + Cfg.q_lora + Cfg.kv_lora + Cfg.latent + Cfg.n_experts * Hidden) + Slack
=============================================================================
