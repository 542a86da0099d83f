-------------------------- MODULE MCOpenAISession --------------------------
EXTENDS OpenAISession
\* The user says the same thing before and after the assistant answers.
MCText == [m \in Msgs |-> IF m \in Assistant THEN m ELSE 0]
============================================================================
