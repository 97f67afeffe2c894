----------------------------- MODULE MCSmpBoot ------------------------------
EXTENDS SmpBoot

\* Processor ids that are the APIC ids, and processor ids counted from 1.
MCIds == {[c \in Cpu |-> c], [c \in Cpu |-> c + 1]}
=============================================================================
