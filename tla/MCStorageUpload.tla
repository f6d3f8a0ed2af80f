--------------------------- MODULE MCStorageUpload ---------------------------
\* A picture of eleven bytes in chunks of at most four: two chunks, and what is
\* left in a third; two repetitions of the first request and two chunks that
\* arrive after the fetcher has given them up.
EXTENDS StorageUpload
=============================================================================
