---------------------------- MODULE MCWorkspace ----------------------------
(* A build of two modules; a plan that edits one file and creates another;  *)
(* two sources that use the legacy symbols, one rewritten repeatably.       *)
EXTENDS Workspace

MCPlanned    == {"Parser.java", "Factory.java"}
MCUntracked  == {"Factory.java"}
MCSources    == {"Client.java", "Tool.java"}
MCRepeatable == {"pom.xml", "module/pom.xml", "Parser.java", "Factory.java", "Tool.java"}
MCModules    == {"module/pom.xml"}

=============================================================================
