--------------------------- MODULE MCIncremental ---------------------------
(* Two keys; each kind of statement program once, with and without keys and  *)
(* watermark.  Snowflake, BigQuery, Iceberg and Hudi execute the programs of *)
(* an engine that is included.                                               *)
EXTENDS Incremental, TLC

CONSTANTS k1, k2, Engines, Parallel

MCKeys == {k1, k2}
Symmetry == Permutations(MCKeys)

\* CTEs matter to Spark's append only; the shared flag to rendered models; a
\* column is added where the two policies differ in their statements.
MCConfigs ==
  {c \in [engine : Engines, keyed : BOOLEAN, watermark : BOOLEAN, drift : BOOLEAN,
          sync : BOOLEAN, cte : BOOLEAN, parallel : Parallel] :
     /\ c.cte => c.engine = "delta" /\ ~c.keyed
     /\ c.drift => c.engine \in {"duckdb", "postgres"} /\ c.watermark
     /\ c.sync => c.drift
     /\ c.parallel => c.engine = "duckdb" /\ ~c.drift
     /\ c.engine = "python" => c.watermark}

ASSUME SnowflakeMerge = DuckMerge /\ BigQueryMerge = DuckMerge
ASSUME IcebergMerge = DeltaMerge /\ HudiMerge = DeltaMerge
=============================================================================
