------------------------------ MODULE MCPipeline ------------------------------
EXTENDS Pipeline
=============================================================================
