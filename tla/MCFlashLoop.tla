------------------------------- MODULE MCFlashLoop -------------------------------
\* Small instances of FlashLoopService for TLC.
EXTENDS FlashLoopService

\* A prompt and a limit that fit, one that exceeds the capacity, and limits of
\* one token (no decode) and of two.
MCPromptLengths == {1, 2}
MCOutputLimits  == {1, 2}
=============================================================================
