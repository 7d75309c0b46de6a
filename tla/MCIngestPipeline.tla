-------------------------- MODULE MCIngestPipeline --------------------------
EXTENDS IngestProgress, TLC

\* Worker processes are interchangeable.
WorkerSymmetry == Permutations(Workers)
=============================================================================
