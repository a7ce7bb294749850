----------------------------- MODULE MCMemoryIndex -----------------------------
(* TLC instances of MemoryIndex: an MCP server and a CLI process, two         *)
(* observation ids, pages of one row.                                         *)
EXTENDS MemoryIndex
================================================================================
